---- MODULE Spec2Model ----
(***************************************************************************)
(* A state-machine model of the battle engine of src/src/main.rs           *)
(* (struct Game and the entities it owns).                                 *)
(*                                                                         *)
(* Conventions of the model                                                *)
(*  - Time.  The code keeps `Instant`s and only ever reads them through    *)
(*    `.elapsed()`.  Every Instant field is therefore modelled by its      *)
(*    elapsed value, counted in half seconds (Sec(1) = 2 units), advanced  *)
(*    by the frame delta at the start of every frame and saturated at the  *)
(*    largest threshold the code compares it with.                         *)
(*  - Geometry.  Positions and velocities are f32 vectors; the model does  *)
(*    not keep them.  Every geometric test of the code (distance < 30,     *)
(*    leaving the arena, reaching the zone, bouncing off an edge) is an    *)
(*    input of the step that evaluates it, drawn with \E.                  *)
(*  - Randomness.  Every rng draw is an input drawn with \E.               *)
(*  - Fractions.  crit_rate, crit_damage, explosion_damage and             *)
(*    bullet_speed_bonus are kept in tenths; attack_speed is a fraction    *)
(*    num/den.                                                             *)
(*  - One frame of update_battle is a sequence of steps, one per function  *)
(*    it calls, sequenced by pc; commands arrive only between frames.      *)
(*  - Fields named id and struck, and the variable trace, are history      *)
(*    (ghost) state: the code never reads them.  id gives an enemy a       *)
(*    stable identity, struck records the enemies a bullet really damaged  *)
(*    since its last bounce, trace records what the current frame did.     *)
(***************************************************************************)
EXTENDS Integers, Sequences, FiniteSets, TLC

VARIABLES
    state,                          \* Game.state
    pc,                             \* position inside the frame
    dt,                             \* delta of the frame being executed
    player,                         \* Game.player
    enemies,                        \* Game.enemies
    bullets,                        \* Game.bullets
    items,                          \* Game.items
    start_time,                     \* Game.start_time.elapsed()
    last_spawn_time,                \* Game.last_spawn_time.elapsed()
    coins,                          \* Game.coins
    wins,                           \* Game.wins
    available_upgrades,             \* Game.available_upgrades
    current_session_coins,          \* Game.current_session_coins
    current_session_exp,            \* Game.current_session_exp
    enemies_defeated_this_session,  \* Game.enemies_defeated_this_session
    total_damage_dealt,             \* Game.total_damage_dealt
    game_result,                    \* Game.game_result
    rogue_selection_timer,          \* Game.rogue_selection_timer
    current_rogue_options,          \* Game.current_rogue_options
    rogue_auto_selected,            \* Game.rogue_auto_selected
    rogue_auto_selected_timer,      \* Game.rogue_auto_selected_timer
    cc,                             \* locals of check_collisions between its two steps
    trace                           \* history of the current frame

vars == << state, pc, dt, player, enemies, bullets, items, start_time,
           last_spawn_time, coins, wins, available_upgrades,
           current_session_coins, current_session_exp,
           enemies_defeated_this_session, total_damage_dealt, game_result,
           rogue_selection_timer, current_rogue_options, rogue_auto_selected,
           rogue_auto_selected_timer, cc, trace >>

----------------------------------------------------------------------------
(* Bounds of the model *)

MaxEnemies == 3
MaxBullets == 2
MaxItems == 2

(* Frame deltas, in half seconds: 0.5 s and 1.0 s. *)
FrameDeltas == {1, 2}

(* Values the random source returns for an index draw. *)
RngIndexValues == {0, 4}

----------------------------------------------------------------------------
(* Helpers *)

Sec(s) == 2 * s

Min(a, b) == IF a < b THEN a ELSE b

Max(a, b) == IF a > b THEN a ELSE b

SetMin(S) == CHOOSE x \in S : \A y \in S : x <= y

Range(s) == { s[i] : i \in 1..Len(s) }

RECURSIVE SeqSum(_)
SeqSum(s) == IF s = << >> THEN 0 ELSE Head(s) + SeqSum(Tail(s))

(* s without the elements at the positions in drop, order kept (Vec::retain). *)
RECURSIVE KeepAt(_, _, _)
KeepAt(s, drop, i) ==
    IF i > Len(s) THEN << >>
    ELSE IF i \in drop THEN KeepAt(s, drop, i + 1)
    ELSE << s[i] >> \o KeepAt(s, drop, i + 1)

Retain(s, drop) == KeepAt(s, drop, 1)

(* Vec::remove(idx), idx counted from 1 here. *)
RemoveAt(s, idx) == Retain(s, {idx})

Count(s, x) == Cardinality({ i \in 1..Len(s) : s[i] = x })

(* Saturating advance of an elapsed value. *)
Advance(age, d, cap) == Min(age + d, cap)

----------------------------------------------------------------------------
(* Weapon *)

WeaponTypes == {"MachineGun", "Laser", "Shotgun"}

WeaponNew(weapon_type) ==
    CASE weapon_type = "MachineGun" ->
           [weapon_type |-> weapon_type, attack_power |-> 2,
            attack_speed |-> [num |-> 12, den |-> 10], bullet_speed |-> 20,
            bullet_count |-> 2, enhancement_level |-> 0]
      [] weapon_type = "Laser" ->
           [weapon_type |-> weapon_type, attack_power |-> 4,
            attack_speed |-> [num |-> 125, den |-> 100], bullet_speed |-> 0,
            bullet_count |-> 1, enhancement_level |-> 0]
      [] weapon_type = "Shotgun" ->
           [weapon_type |-> weapon_type, attack_power |-> 4,
            attack_speed |-> [num |-> 10, den |-> 10], bullet_speed |-> 30,
            bullet_count |-> 3, enhancement_level |-> 0]

WeaponTotalAttackPower(w) == w.attack_power + w.enhancement_level

----------------------------------------------------------------------------
(* Enemy *)

EnemyTypes == {"Scout", "Heavy", "Carrier", "Boss"}

ScoutHealth == 20
HeavyHealth == 30
CarrierHealth == 100
BossHealth == 150
BossPhaseHealth == 75

EnemyStats(enemy_type) ==
    CASE enemy_type = "Scout"   -> [health |-> ScoutHealth, bullet_damage |-> 0, collision_damage |-> 5]
      [] enemy_type = "Heavy"   -> [health |-> HeavyHealth, bullet_damage |-> 2, collision_damage |-> 5]
      [] enemy_type = "Carrier" -> [health |-> CarrierHealth, bullet_damage |-> 0, collision_damage |-> 10]
      [] enemy_type = "Boss"    -> [health |-> BossHealth, bullet_damage |-> 10, collision_damage |-> 20]

(* Enemy::new.  pattern is the rng draw 1..4 of a Heavy; the other types  *)
(* have a fixed pattern.                                                   *)
EnemyNew(enemy_type, pattern, id) ==
    [enemy_type       |-> enemy_type,
     health           |-> EnemyStats(enemy_type).health,
     max_health       |-> EnemyStats(enemy_type).health,
     bullet_damage    |-> EnemyStats(enemy_type).bullet_damage,
     collision_damage |-> EnemyStats(enemy_type).collision_damage,
     last_shot_time   |-> 0,
     spawn_time       |-> 0,
     special_state    |-> IF enemy_type = "Boss" THEN 1 ELSE 0,
     is_invincible    |-> FALSE,
     shield_health    |-> 0,
     movement_pattern |-> CASE enemy_type = "Heavy" -> pattern
                            [] enemy_type = "Boss" -> 1
                            [] OTHER -> 0,
     movement_timer   |-> 0,
     has_reached_zone |-> FALSE,
     id               |-> id]

DropGold(e) ==
    CASE e.enemy_type = "Scout" -> 10
      [] e.enemy_type = "Heavy" -> 20
      [] e.enemy_type = "Carrier" -> 50
      [] e.enemy_type = "Boss" -> 100

DropExp(e) ==
    CASE e.enemy_type = "Scout" -> 20
      [] e.enemy_type = "Heavy" -> 30
      [] e.enemy_type = "Carrier" -> 50
      [] e.enemy_type = "Boss" -> 0

(* Enemy::take_damage without the early return of an invincible enemy. *)
EnemyTakeDamageThroughShield(e, damage) ==
    LET d == IF e.shield_health > 0
             THEN [e EXCEPT !.shield_health = Max(e.shield_health - damage, 0)]
             ELSE [e EXCEPT !.health = Max(e.health - damage, 0)]
    IN  IF d.enemy_type = "Boss" /\ d.health <= BossPhaseHealth /\ d.special_state = 1
        THEN [d EXCEPT !.special_state = 2, !.is_invincible = TRUE]
        ELSE d

(* Enemy::take_damage without the floor of zero. *)
EnemyTakeDamageUnclamped(e, damage) ==
    IF e.is_invincible THEN e
    ELSE LET d == IF e.shield_health > 0
                  THEN [e EXCEPT !.shield_health = e.shield_health - damage]
                  ELSE [e EXCEPT !.health = e.health - damage]
         IN  IF d.enemy_type = "Boss" /\ d.health <= BossPhaseHealth /\ d.special_state = 1
             THEN [d EXCEPT !.special_state = 2, !.is_invincible = TRUE]
             ELSE d

(* Enemy::take_damage *)
EnemyTakeDamage(e, damage) ==
    IF e.is_invincible THEN e
    ELSE LET d == IF e.shield_health > 0
                  THEN [e EXCEPT !.shield_health = Max(e.shield_health - damage, 0)]
                  ELSE [e EXCEPT !.health = Max(e.health - damage, 0)]
         IN  IF d.enemy_type = "Boss" /\ d.health <= BossPhaseHealth /\ d.special_state = 1
             THEN [d EXCEPT !.special_state = 2, !.is_invincible = TRUE]
             ELSE d

(* The smallest identity no enemy of es carries. *)
FreshId(es) == SetMin((0..Len(es)) \ { es[i].id : i \in 1..Len(es) })

----------------------------------------------------------------------------
(* Bullet *)

LaserPiercing == 9999

(* Bullet::new *)
BulletNew(damage, is_player_bullet, bullet_type) ==
    [damage           |-> damage,
     is_player_bullet |-> is_player_bullet,
     piercing_count   |-> 0,
     ricochet_count   |-> 0,
     burning_damage   |-> 0,
     explosion_damage |-> 0,
     is_crit          |-> FALSE,
     hit_enemies      |-> {},
     bullet_type      |-> bullet_type,
     struck           |-> {},
     hits             |-> 0,
     budget           |-> 0]

(* n copies of bullet b, as pushed by one burst. *)
Burst(n, b) == [i \in 1..n |-> b]

----------------------------------------------------------------------------
(* Item *)

HealthPackValue == 30

ItemNew(item_type, value) == [item_type |-> item_type, value |-> value]

----------------------------------------------------------------------------
(* Rogue upgrades.  Option<u32> is a sequence of length 0 (None) or 1.     *)

MultiShotCap == 5

RogueUpgradeNew(id, max_selections) ==
    [id |-> id, max_selections |-> max_selections, current_selections |-> 0]

(* Game::init_rogue_upgrades *)
InitRogueUpgrades ==
    [i \in 1..11 |-> RogueUpgradeNew(i - 1, IF i - 1 = 4 THEN << MultiShotCap >> ELSE << >>)]

UpgradeIds(us) == { us[i].id : i \in 1..Len(us) }

----------------------------------------------------------------------------
(* Player *)

(* Player::new *)
PlayerNew ==
    [health                 |-> 20,
     max_health             |-> 20,
     level                  |-> 1,
     experience             |-> 0,
     experience_needed      |-> 100,
     weapon                 |-> WeaponNew("MachineGun"),
     last_shot_time         |-> 0,
     attack_power_bonus     |-> 0,
     crit_rate              |-> 0,
     crit_damage            |-> 15,
     bullet_count_bonus     |-> 0,
     piercing               |-> 0,
     ricochet               |-> 0,
     burning_damage         |-> 0,
     explosion_damage       |-> 0,
     damage_reduction       |-> 0,
     bullet_speed_bonus     |-> 0,
     rogue_upgrades         |-> << >>,
     last_damage_time       |-> 0,
     invincibility_duration |-> 0]

(* Player::add_experience *)
AddExperience(p, exp) == [p EXCEPT !.experience = p.experience + exp]

(* Player::level_up *)
LevelUp(p) ==
    [p EXCEPT !.experience = p.experience - p.experience_needed,
              !.level = p.level + 1,
              !.experience_needed = 100 * (p.level + 1)]

(* Player::can_shoot: elapsed >= 1.0 / attack_speed *)
CanShoot(p) ==
    p.last_shot_time * p.weapon.attack_speed.num >= Sec(1) * p.weapon.attack_speed.den

(* Player::get_total_attack_power *)
TotalAttackPower(p) == WeaponTotalAttackPower(p.weapon) + p.attack_power_bonus

(* Player::get_total_bullet_count *)
TotalBulletCount(p) ==
    Min(p.weapon.bullet_count + p.bullet_count_bonus, p.weapon.bullet_count + 5)

(* Player::take_damage without its invincibility window. *)
PlayerTakeDamageNoWindow(p, damage) ==
    LET actual_damage == Max(damage - p.damage_reduction, 1)
    IN  [p EXCEPT !.health = Max(p.health - actual_damage, 0),
                  !.last_damage_time = 0,
                  !.invincibility_duration = Sec(1)]

(* Player::take_damage without the minimum of 1 point. *)
PlayerTakeDamageUnfloored(p, damage) ==
    IF p.last_damage_time < p.invincibility_duration THEN p
    ELSE [p EXCEPT !.health = Max(p.health - (damage - p.damage_reduction), 0),
                   !.last_damage_time = 0,
                   !.invincibility_duration = Sec(1)]

(* Player::take_damage *)
PlayerTakeDamage(p, damage) ==
    IF p.last_damage_time < p.invincibility_duration THEN p
    ELSE LET actual_damage == Max(damage - p.damage_reduction, 1)
         IN  [p EXCEPT !.health = Max(p.health - actual_damage, 0),
                       !.last_damage_time = 0,
                       !.invincibility_duration = Sec(1)]

(* An apply_rogue_upgrade that, whatever the upgrade, restores the health   *)
(* of the player.                                                          *)
ApplyRogueUpgradeHealing(p, upgrade_id) == [p EXCEPT !.health = p.max_health]

(* Game::apply_rogue_upgrade *)
ApplyRogueUpgrade(p, upgrade_id) ==
    CASE upgrade_id = 0 -> [p EXCEPT !.max_health = p.max_health + 3,
                                     !.health = p.health + 3]
      [] upgrade_id = 1 -> [p EXCEPT !.attack_power_bonus = p.attack_power_bonus + 2]
      [] upgrade_id = 2 -> [p EXCEPT !.crit_rate = p.crit_rate + 1]
      [] upgrade_id = 3 -> [p EXCEPT !.crit_damage = p.crit_damage + 2]
      [] upgrade_id = 4 -> [p EXCEPT !.bullet_count_bonus = p.bullet_count_bonus + 1]
      [] upgrade_id = 5 -> [p EXCEPT !.explosion_damage = p.explosion_damage + 3]
      [] upgrade_id = 6 -> [p EXCEPT !.burning_damage = p.burning_damage + 2]
      [] upgrade_id = 7 -> [p EXCEPT !.bullet_speed_bonus = p.bullet_speed_bonus + 3,
                                     !.weapon.attack_speed =
                                         [num |-> p.weapon.attack_speed.num * 13,
                                          den |-> p.weapon.attack_speed.den * 10]]
      [] upgrade_id = 8 -> [p EXCEPT !.damage_reduction = p.damage_reduction + 3]
      [] upgrade_id = 9 -> [p EXCEPT !.piercing = p.piercing + 1]
      [] upgrade_id = 10 -> [p EXCEPT !.ricochet = p.ricochet + 1]
      [] OTHER -> p

(* The pool update of apply_upgrade_and_complete without the removal at    *)
(* the cap.                                                                *)
PoolAfterApplyUncapped(pool, upgrade) ==
    IF upgrade.id \notin UpgradeIds(pool) THEN pool
    ELSE LET k == CHOOSE i \in 1..Len(pool) : pool[i].id = upgrade.id
         IN  [pool EXCEPT ![k].current_selections = pool[k].current_selections + 1]

(* The part of apply_upgrade_and_complete that updates the pool: the stack *)
(* counter of the upgrade rises, and the upgrade leaves the pool at its cap. *)
PoolAfterApply(pool, upgrade) ==
    IF upgrade.id \notin UpgradeIds(pool) THEN pool
    ELSE LET k == CHOOSE i \in 1..Len(pool) : pool[i].id = upgrade.id
             counted == [pool EXCEPT ![k].current_selections = pool[k].current_selections + 1]
         IN  IF counted[k].max_selections # << >>
                /\ counted[k].current_selections >= counted[k].max_selections[1]
             THEN Retain(counted, { i \in 1..Len(counted) : counted[i].id = upgrade.id })
             ELSE counted

(* Game::get_random_rogue_options drawing with replacement. *)
RECURSIVE DrawOptionsWithReplacement(_, _, _)
DrawOptionsWithReplacement(available, draws, k) ==
    IF k > Min(3, Len(available)) \/ available = << >> THEN << >>
    ELSE << available[draws[k] + 1] >>
         \o DrawOptionsWithReplacement(available, draws, k + 1)

(* Game::get_random_rogue_options: up to 3 draws without replacement;      *)
(* draws is the sequence of rng values, draws[k] < length of what is left. *)
RECURSIVE DrawOptions(_, _, _)
DrawOptions(available, draws, k) ==
    IF k > Min(3, Len(available) + k - 1) \/ available = << >> THEN << >>
    ELSE << available[draws[k] + 1] >>
         \o DrawOptions(RemoveAt(available, draws[k] + 1), draws, k + 1)

(* The rng sequences get_random_rogue_options can see for a pool of n. *)
OptionDraws(n) ==
    { d \in [1..Min(3, n) -> 0..(IF n = 0 THEN 0 ELSE n - 1)] :
        \A k \in 1..Min(3, n) : d[k] \in RngIndexValues /\ d[k] < n - (k - 1) }

RogueOptions(pool, draws) == DrawOptions(pool, draws, 1)

----------------------------------------------------------------------------
(* Locals of check_collisions kept between its two steps, and the history  *)
(* of the frame.                                                           *)

EmptyLocals ==
    [explosion_damages |-> << >>, bullets_to_remove |-> {}, enemies_to_remove |-> << >>]

EmptyTrace ==
    [in_range |-> {}, hits |-> << >>, applied |-> << >>, credits |-> << >>,
     player_hits |-> << >>, drops |-> << >>]

----------------------------------------------------------------------------
(* The clock: every Instant of the game grows older by the frame delta.    *)
(* Only a Boss reads spawn_time (>= 5 s, and whole seconds mod 6), so it   *)
(* is kept exactly below 6 s and modulo 6 s from there on; Scouts never    *)
(* read last_shot_time.                                                    *)

ElapsedCap == 180

WrapSpawnTime(age) ==
    IF age < Sec(6) THEN age ELSE Sec(6) + ((age - Sec(6)) % Sec(6))

EnemyAged(e, d) ==
    [e EXCEPT !.last_shot_time =
                  CASE e.enemy_type = "Heavy"   -> Advance(e.last_shot_time, d, Sec(1))
                    [] e.enemy_type = "Carrier" -> Advance(e.last_shot_time, d, Sec(5))
                    [] e.enemy_type = "Boss"    -> Advance(e.last_shot_time, d, Sec(3))
                    [] OTHER -> 0,
              !.spawn_time =
                  IF e.enemy_type = "Boss" THEN WrapSpawnTime(e.spawn_time + d) ELSE 0]

PlayerAged(p, d) ==
    [p EXCEPT !.last_shot_time = Advance(p.last_shot_time, d, Sec(1)),
              !.last_damage_time = Advance(p.last_damage_time, d, Sec(1))]

ClockAdvance(d) ==
    /\ dt' = d
    /\ start_time' = Advance(start_time, d, Sec(ElapsedCap))

----------------------------------------------------------------------------
(* Game::spawn_enemies *)

HasType(es, enemy_type) == \E i \in 1..Len(es) : es[i].enemy_type = enemy_type

(* es with one new enemy per entry of wave (a sequence of                  *)
(* [enemy_type, pattern]) pushed at its end.                               *)
RECURSIVE PushEnemies(_, _)
PushEnemies(es, wave) ==
    IF wave = << >> THEN es
    ELSE PushEnemies(
             Append(es, EnemyNew(Head(wave).enemy_type, Head(wave).pattern, FreshId(es))),
             Tail(wave))

(* A scout_count that does not grow with the elapsed time. *)
ScoutCountFlat(elapsed) == 3

ScoutCount(elapsed) == 3 + (elapsed \div Sec(60))

HeavyCount(elapsed) ==
    IF elapsed < Sec(20) THEN 0 ELSE 1 + ((elapsed - Sec(20)) \div Sec(30))

(* Whole seconds of elapsed: `elapsed as i32`. *)
WholeSeconds(elapsed) == elapsed \div Sec(1)

CarrierDue(es, elapsed) ==
    /\ elapsed >= Sec(40)
    /\ \/ WholeSeconds(elapsed) % 60 = 0
       \/ (elapsed >= Sec(40) /\ elapsed < Sec(45) /\ ~HasType(es, "Carrier"))

ScoutsDue(elapsed) == WholeSeconds(elapsed) % 5 = 0

HeaviesDue(elapsed) == WholeSeconds(elapsed) % 10 = 0 /\ elapsed >= Sec(20)

(* The enemies one spawn gate creates, in the order the code pushes them;  *)
(* patterns[k] is the movement pattern drawn for the k-th Heavy.           *)
SpawnWave(es, elapsed, patterns) ==
    (IF CarrierDue(es, elapsed) THEN << [enemy_type |-> "Carrier", pattern |-> 0] >> ELSE << >>)
    \o (IF ScoutsDue(elapsed)
        THEN [k \in 1..ScoutCount(elapsed) |-> [enemy_type |-> "Scout", pattern |-> 0]]
        ELSE << >>)
    \o (IF HeaviesDue(elapsed)
        THEN [k \in 1..HeavyCount(elapsed) |-> [enemy_type |-> "Heavy", pattern |-> patterns[k]]]
        ELSE << >>)

(* spawn_enemies pushing a Boss on every tick from 180 s on, whether one   *)
(* exists or not.                                                          *)
SpawnEnemiesBossEveryTick(es, elapsed, spawn_age, patterns) ==
    IF elapsed >= Sec(180)
    THEN [enemies |-> Append(es, EnemyNew("Boss", 1, FreshId(es))), gate |-> FALSE]
    ELSE IF spawn_age < Sec(1)
         THEN [enemies |-> es, gate |-> FALSE]
         ELSE [enemies |-> PushEnemies(es, SpawnWave(es, elapsed, patterns)), gate |-> TRUE]

(* The result of spawn_enemies: the enemy collection and whether the       *)
(* spawn clock was restarted.                                              *)
SpawnEnemies(es, elapsed, spawn_age, patterns) ==
    IF elapsed >= Sec(180)
    THEN IF HasType(es, "Boss")
         THEN [enemies |-> es, gate |-> FALSE]
         ELSE [enemies |-> Append(es, EnemyNew("Boss", 1, FreshId(es))), gate |-> FALSE]
    ELSE IF spawn_age < Sec(1)
         THEN [enemies |-> es, gate |-> FALSE]
         ELSE [enemies |-> PushEnemies(es, SpawnWave(es, elapsed, patterns)), gate |-> TRUE]

(* The movement patterns the rng can draw for the Heavies of one gate. *)
PatternDraws(elapsed, spawn_age) ==
    IF elapsed < Sec(180) /\ spawn_age >= Sec(1) /\ HeaviesDue(elapsed)
    THEN [1..HeavyCount(elapsed) -> 1..4]
    ELSE { << >> }

----------------------------------------------------------------------------
(* Game::update_player and Game::player_shoot *)

PlayerBulletType(weapon_type) ==
    CASE weapon_type = "MachineGun" -> "PlayerMachineGun"
      [] weapon_type = "Laser" -> "PlayerLaser"
      [] weapon_type = "Shotgun" -> "PlayerShotgun"

(* The closure create_bullet of player_shoot; crit is the outcome of the   *)
(* roll rng < crit_rate.                                                   *)
CreateBullet(p, damage, crit) ==
    LET piercing == IF p.weapon.weapon_type = "Laser" THEN LaserPiercing ELSE p.piercing
    IN  [BulletNew(damage, TRUE, PlayerBulletType(p.weapon.weapon_type)) EXCEPT
            !.piercing_count = piercing,
            !.ricochet_count = p.ricochet,
            !.burning_damage = p.burning_damage,
            !.explosion_damage = p.explosion_damage,
            !.damage = IF crit THEN (damage * p.crit_damage) \div 10 ELSE damage,
            !.is_crit = crit,
            !.budget = piercing]

(* The outcomes of the crit rolls of one volley of n bullets: the set of   *)
(* bullets that crit.                                                      *)
CritRolls(p, n) ==
    IF p.crit_rate <= 0 THEN { {} }
    ELSE IF p.crit_rate >= 10 THEN { 1..n }
    ELSE SUBSET (1..n)

PlayerShoot(p, crits) ==
    [i \in 1..TotalBulletCount(p) |-> CreateBullet(p, TotalAttackPower(p), i \in crits)]

(* First step of Game::update_battle: the clock, spawn_enemies and         *)
(* update_player.                                                          *)
UpdateBattle(d) ==
    /\ state = "Battle"
    /\ pc = "idle"
    /\ ClockAdvance(d)
    /\ LET elapsed == Advance(start_time, d, Sec(ElapsedCap))
           spawn_age == Advance(last_spawn_time, d, Sec(1))
           aged == [i \in 1..Len(enemies) |-> EnemyAged(enemies[i], d)]
           p == PlayerAged(player, d)
       IN  /\ Len(aged) + Len(SpawnWave(aged, elapsed, [k \in 1..HeavyCount(elapsed) |-> 1]))
                 <= MaxEnemies \/ elapsed >= Sec(180) \/ spawn_age < Sec(1)
           /\ \E patterns \in PatternDraws(elapsed, spawn_age) :
                LET spawned == SpawnEnemies(aged, elapsed, spawn_age, patterns)
                IN  /\ Len(spawned.enemies) <= MaxEnemies
                    /\ enemies' = spawned.enemies
                    /\ last_spawn_time' = IF spawned.gate THEN 0 ELSE spawn_age
           /\ IF CanShoot(p)
              THEN /\ Len(bullets) + TotalBulletCount(p) <= MaxBullets
                   /\ \E crits \in CritRolls(p, TotalBulletCount(p)) :
                        /\ bullets' = bullets \o PlayerShoot(p, crits)
                        /\ player' = [p EXCEPT !.last_shot_time = 0]
              ELSE /\ bullets' = bullets
                   /\ player' = p
    /\ pc' = "update_enemies"
    /\ trace' = EmptyTrace
    /\ UNCHANGED << state, items, coins, wins, available_upgrades,
                    current_session_coins, current_session_exp,
                    enemies_defeated_this_session, total_damage_dealt, game_result,
                    rogue_selection_timer, current_rogue_options, rogue_auto_selected,
                    rogue_auto_selected_timer, cc >>

----------------------------------------------------------------------------
(* Game::update_enemies *)

(* movement_timer is read for a Heavy (attack variant, pattern resets)     *)
(* and, before the zone is reached, for a Boss (its descent from y = 50 to *)
(* y = 100 at 50 units per second takes 1 s); elsewhere it is kept at 0.   *)
TimerAdvanced(e, d) ==
    IF e.enemy_type = "Heavy" \/ (e.enemy_type = "Boss" /\ ~e.has_reached_zone)
    THEN e.movement_timer + d
    ELSE 0

(* Game::update_heavy_movement, as far as it changes movement_timer.       *)
(* Pattern 2 never resets the timer and reads it through cos, sin and      *)
(* whole seconds mod 4 only: it is kept modulo 4 s.                        *)
UpdateHeavyMovement(e) ==
    CASE e.movement_pattern = 1 ->
           IF e.movement_timer >= Sec(3) THEN [e EXCEPT !.movement_timer = 0] ELSE e
      [] e.movement_pattern = 2 ->
           [e EXCEPT !.movement_timer = e.movement_timer % Sec(4)]
      [] e.movement_pattern = 3 ->
           IF e.movement_timer >= Sec(2) THEN [e EXCEPT !.movement_timer = 0] ELSE e
      [] e.movement_pattern = 4 ->
           IF e.movement_timer >= Sec(4) THEN [e EXCEPT !.movement_timer = 0] ELSE e
      [] OTHER -> e

(* The bullets of one Heavy attack without the tests elapsed >= 90. *)
HeavyAttackAtAnyTime(e, elapsed) ==
    LET attack_pattern == (e.movement_timer \div Sec(1)) % 4
    IN  CASE attack_pattern = 0 ->
               Burst(3, BulletNew(e.bullet_damage + 1, FALSE, "EnemyHeavy"))
          [] attack_pattern = 1 ->
               Burst(5, BulletNew(e.bullet_damage, FALSE, "EnemyGeneric"))
          [] attack_pattern = 2 ->
               Burst(2, BulletNew(e.bullet_damage, FALSE, "EnemyGeneric"))
          [] attack_pattern = 3 ->
               Burst(1, BulletNew(e.bullet_damage + 2, FALSE, "EnemyBoss"))

(* The bullets of one Heavy attack (lines 844-900). *)
HeavyAttack(e, elapsed) ==
    LET attack_pattern == (e.movement_timer \div Sec(1)) % 4
    IN  CASE attack_pattern = 0 ->
               IF elapsed >= Sec(90)
               THEN Burst(3, BulletNew(e.bullet_damage + 1, FALSE, "EnemyHeavy"))
               ELSE << >>
          [] attack_pattern = 1 ->
               IF elapsed >= Sec(90)
               THEN Burst(5, BulletNew(e.bullet_damage, FALSE, "EnemyGeneric"))
               ELSE << >>
          [] attack_pattern = 2 ->
               Burst(2, BulletNew(e.bullet_damage, FALSE, "EnemyGeneric"))
          [] attack_pattern = 3 ->
               Burst(1, BulletNew(e.bullet_damage + 2, FALSE, "EnemyBoss"))

(* Game::update_boss_and_get_bullets: the boss and the bullets it fires. *)
UpdateBossAndGetBullets(boss) ==
    IF boss.special_state = 1
    THEN IF boss.last_shot_time >= Sec(3)
         THEN [e |-> [boss EXCEPT !.last_shot_time = 0],
               bullets |-> IF (boss.spawn_time \div Sec(1)) % 6 = 0
                           THEN Burst(24, BulletNew(boss.bullet_damage, FALSE, "EnemyBoss"))
                           ELSE Burst(12, BulletNew(boss.bullet_damage, FALSE, "EnemyBoss"))]
         ELSE [e |-> boss, bullets |-> << >>]
    ELSE IF boss.special_state = 2
    THEN LET b == IF boss.is_invincible /\ boss.spawn_time >= Sec(5)
                  THEN [boss EXCEPT !.is_invincible = FALSE]
                  ELSE boss
         IN  IF b.last_shot_time >= Sec(2)
             THEN [e |-> [b EXCEPT !.last_shot_time = 0],
                   bullets |-> Burst(32, BulletNew(15, FALSE, "EnemyBoss"))]
             ELSE [e |-> b, bullets |-> << >>]
    ELSE [e |-> boss, bullets |-> << >>]

(* One iteration of the loop over the enemies (lines 825-927): the enemy,  *)
(* the number of Scouts it births and the bullets it fires.  reached says  *)
(* whether the descent crossed the target height in this frame.            *)
UpdateEnemy(e0, reached, elapsed, d) ==
    LET e == [e0 EXCEPT !.movement_timer = TimerAdvanced(e0, d)]
    IN  CASE e.enemy_type = "Scout" -> [e |-> e, scouts |-> 0, bullets |-> << >>]
          [] e.enemy_type = "Heavy" ->
               LET m == IF ~e.has_reached_zone
                        THEN IF reached
                             THEN [e EXCEPT !.has_reached_zone = TRUE, !.movement_timer = 0]
                             ELSE e
                        ELSE UpdateHeavyMovement(e)
               IN  IF m.last_shot_time >= Sec(1)
                   THEN [e |-> [m EXCEPT !.last_shot_time = 0], scouts |-> 0,
                         bullets |-> HeavyAttack(m, elapsed)]
                   ELSE [e |-> m, scouts |-> 0, bullets |-> << >>]
          [] e.enemy_type = "Carrier" ->
               IF e.last_shot_time >= Sec(5)
               THEN [e |-> [e EXCEPT !.last_shot_time = 0], scouts |-> 1, bullets |-> << >>]
               ELSE [e |-> e, scouts |-> 0, bullets |-> << >>]
          [] e.enemy_type = "Boss" ->
               LET m == IF ~e.has_reached_zone
                        THEN IF reached
                             THEN [e EXCEPT !.has_reached_zone = TRUE, !.movement_timer = 0]
                             ELSE e
                        ELSE e
                   r == UpdateBossAndGetBullets(m)
               IN  [e |-> r.e, scouts |-> 0, bullets |-> r.bullets]

(* The enemies whose descent can cross the target height in a frame of     *)
(* delta d, and those for which it must: a Heavy starts at y in [50, 200)  *)
(* and descends 80 units per second to y = 120, a Boss takes exactly 1 s.  *)
CanReach(es, d) ==
    { i \in 1..Len(es) : /\ es[i].enemy_type \in {"Heavy", "Boss"}
                         /\ ~es[i].has_reached_zone
                         /\ (es[i].enemy_type = "Boss" => es[i].movement_timer + d >= Sec(1)) }

MustReach(es, d) ==
    { i \in CanReach(es, d) : es[i].movement_timer + d >= Sec(1) }

(* The enemies that can be outside the arena: a Heavy or a Boss is inside  *)
(* it from its spawn on.                                                   *)
CanLeave(es) == { i \in 1..Len(es) : es[i].enemy_type \in {"Scout", "Carrier"} }

(* The closure of Vec::retain (lines 932-949): the positions dropped,      *)
(* given the positions that are outside the arena.                         *)
EnemiesDropped(es, gone) ==
    { i \in 1..Len(es) :
        IF es[i].enemy_type \in {"Heavy", "Boss"}
        THEN IF es[i].has_reached_zone THEN ~(es[i].health > 0) ELSE i \in gone
        ELSE i \in gone }

(* History only: a removed enemy's identity leaves every struck set, so    *)
(* that the identity can be given to a later enemy.                        *)
ForgetIds(bs, ids) ==
    [i \in 1..Len(bs) |-> [bs[i] EXCEPT !.struck = bs[i].struck \ ids]]

RECURSIVE Flatten(_)
Flatten(ss) == IF ss = << >> THEN << >> ELSE Head(ss) \o Flatten(Tail(ss))

UpdateEnemies(reach, gone) ==
    /\ pc = "update_enemies"
    /\ LET r == [i \in 1..Len(enemies) |->
                    UpdateEnemy(enemies[i], i \in reach, start_time, dt)]
           moved == [i \in 1..Len(enemies) |-> r[i].e]
           births == SeqSum([i \in 1..Len(enemies) |-> r[i].scouts])
           new_bullets == Flatten([i \in 1..Len(enemies) |-> r[i].bullets])
           extended == PushEnemies(moved, [k \in 1..births |-> [enemy_type |-> "Scout", pattern |-> 0]])
           dropped == EnemiesDropped(extended, gone)
       IN  /\ Len(extended) - Cardinality(dropped) <= MaxEnemies
           /\ Len(bullets) + Len(new_bullets) <= MaxBullets
           /\ enemies' = Retain(extended, dropped)
           /\ bullets' = ForgetIds(bullets \o new_bullets,
                                   { extended[i].id : i \in dropped })
    /\ pc' = "update_bullets"
    /\ UNCHANGED << state, dt, player, items, start_time, last_spawn_time, coins, wins,
                    available_upgrades, current_session_coins, current_session_exp,
                    enemies_defeated_this_session, total_damage_dealt, game_result,
                    rogue_selection_timer, current_rogue_options, rogue_auto_selected,
                    rogue_auto_selected_timer, cc, trace >>

----------------------------------------------------------------------------
(* Game::update_bullets and Game::update_items *)

(* One iteration of the loop over the bullets (lines 1101-1123); bx and by *)
(* say whether the bullet is at or beyond an x edge, a y edge.             *)
MoveBullet(b, bx, by) ==
    IF b.ricochet_count > 0
    THEN LET b1 == IF bx THEN [b EXCEPT !.ricochet_count = b.ricochet_count - 1] ELSE b
             b2 == IF by THEN [b1 EXCEPT !.ricochet_count = b1.ricochet_count - 1] ELSE b1
         IN  IF bx \/ by THEN [b2 EXCEPT !.hit_enemies = {}, !.struck = {}] ELSE b2
    ELSE b

(* The closure of Vec::retain (lines 1125-1132): the positions dropped,    *)
(* given the positions that are outside the arena's margin of 50.          *)
BulletsDropped(bs, out) ==
    { i \in 1..Len(bs) : IF bs[i].ricochet_count > 0 THEN FALSE ELSE i \in out }

UpdateBullets(xs, ys, out, lost) ==
    /\ pc = "update_bullets"
    /\ LET moved == [i \in 1..Len(bullets) |-> MoveBullet(bullets[i], i \in xs, i \in ys)]
       IN  bullets' = Retain(moved, BulletsDropped(moved, out))
    /\ items' = Retain(items, lost)
    /\ pc' = "check_collisions"
    /\ UNCHANGED << state, dt, player, enemies, start_time, last_spawn_time, coins, wins,
                    available_upgrades, current_session_coins, current_session_exp,
                    enemies_defeated_this_session, total_damage_dealt, game_result,
                    rogue_selection_timer, current_rogue_options, rogue_auto_selected,
                    rogue_auto_selected_timer, cc, trace >>

(* The geometric inputs of update_bullets: a bullet that bounced was       *)
(* clamped into the arena, so it is not outside the margin.                *)
Bouncers(bs) == { i \in 1..Len(bs) : bs[i].ricochet_count > 0 }

----------------------------------------------------------------------------
(* Game::check_collisions, first step: player bullets against enemies      *)
(* (lines 1176-1241) and the application of the damage (lines 1244-1274).  *)
(* Positions in the enemy and bullet collections are counted from 1.       *)
(* near is the set of pairs << bullet position, enemy position >> whose    *)
(* distance is below 30.                                                   *)

HitDamage(b) == IF b.burning_damage > 0 THEN b.damage + b.burning_damage ELSE b.damage

ExplosionDamage(b) == (HitDamage(b) * b.explosion_damage) \div 10

(* The inner loop over the enemies for one bullet (lines 1184-1219), from  *)
(* enemy position ei on.  acc holds new_hit_enemies, the entries pushed to *)
(* enemy_bullet_hits, explosion_damages and bullet_piercing_updates, and   *)
(* should_remove_bullet.                                                   *)
RECURSIVE ScanEnemies(_, _, _, _, _, _)
ScanEnemies(b, bi, es, near, ei, acc) ==
    IF ei > Len(es) THEN acc
    ELSE IF es[ei].health <= 0 \/ ei \in b.hit_enemies
         THEN ScanEnemies(b, bi, es, near, ei + 1, acc)
    ELSE IF << bi, ei >> \notin near
         THEN ScanEnemies(b, bi, es, near, ei + 1, acc)
    ELSE LET finite == b.piercing_count # LaserPiercing /\ b.piercing_count > 0
             hit == [acc EXCEPT
                       !.new_hit_enemies = acc.new_hit_enemies \cup {ei},
                       !.enemy_bullet_hits =
                           Append(acc.enemy_bullet_hits,
                                  [bullet |-> bi, enemy_idx |-> ei, damage |-> HitDamage(b),
                                   id |-> es[ei].id, again |-> es[ei].id \in b.struck]),
                       !.explosion_damages =
                           IF b.explosion_damage > 0
                           THEN Append(acc.explosion_damages,
                                       [origin |-> ei, damage |-> ExplosionDamage(b)])
                           ELSE acc.explosion_damages,
                       !.piercing_updates =
                           IF finite THEN Append(acc.piercing_updates, b.piercing_count - 1)
                           ELSE acc.piercing_updates,
                       !.should_remove =
                           IF finite THEN (acc.should_remove \/ b.piercing_count - 1 <= 0)
                           ELSE IF b.piercing_count = 0 THEN TRUE
                           ELSE acc.should_remove]
         IN  IF b.piercing_count = 0 THEN hit
             ELSE ScanEnemies(b, bi, es, near, ei + 1, hit)

(* One iteration of the loop over the bullets (lines 1176-1228). *)
ScanBullet(b, bi, es, near) ==
    IF ~b.is_player_bullet
    THEN [new_hit_enemies |-> b.hit_enemies, enemy_bullet_hits |-> << >>,
          explosion_damages |-> << >>, piercing_updates |-> << >>, should_remove |-> FALSE]
    ELSE ScanEnemies(b, bi, es, near, 1,
                     [new_hit_enemies |-> b.hit_enemies, enemy_bullet_hits |-> << >>,
                      explosion_damages |-> << >>, piercing_updates |-> << >>,
                      should_remove |-> FALSE])

(* The bullet after the updates of lines 1231-1241 (the last piercing      *)
(* update pushed for it wins), with its history.                           *)
BulletAfterScan(b, scan) ==
    [b EXCEPT
        !.hit_enemies = scan.new_hit_enemies,
        !.piercing_count =
            IF scan.piercing_updates = << >> THEN b.piercing_count
            ELSE scan.piercing_updates[Len(scan.piercing_updates)],
        !.struck = b.struck \cup { scan.enemy_bullet_hits[k].id :
                                     k \in 1..Len(scan.enemy_bullet_hits) },
        !.hits = b.hits + Len(scan.enemy_bullet_hits)]

(* The loop that applies enemy_bullet_hits (lines 1244-1274), from entry k *)
(* on.  drops is the set of entries whose item roll is below 0.4.  acc     *)
(* holds the enemies, what was credited, the items pushed, the entries of  *)
(* enemies_to_remove and the history.                                      *)
RECURSIVE ApplyHits(_, _, _, _)
ApplyHits(hits, k, drops, acc) ==
    IF k > Len(hits) THEN acc
    ELSE LET idx == hits[k].enemy_idx
             before == acc.enemies[idx]
             after == EnemyTakeDamage(before, hits[k].damage)
             dead == after.health <= 0
             log == [id |-> before.id, enemy_type |-> before.enemy_type,
                     damage |-> hits[k].damage, invincible |-> before.is_invincible,
                     before |-> before.health, after |-> after.health,
                     state_before |-> before.special_state,
                     state_after |-> after.special_state]
         IN  ApplyHits(hits, k + 1, drops,
                 [acc EXCEPT
                     !.enemies = [acc.enemies EXCEPT ![idx] = after],
                     !.coins = IF dead THEN acc.coins + DropGold(after) ELSE acc.coins,
                     !.exp = IF dead THEN acc.exp + DropExp(after) ELSE acc.exp,
                     !.defeated = IF dead THEN acc.defeated + 1 ELSE acc.defeated,
                     !.items = IF dead /\ after.enemy_type = "Heavy" /\ k \in drops
                               THEN Append(acc.items, ItemNew("HealthPack", HealthPackValue))
                               ELSE acc.items,
                     !.rolls = IF dead /\ after.enemy_type = "Heavy"
                               THEN acc.rolls \cup {k} ELSE acc.rolls,
                     !.enemies_to_remove =
                         IF dead THEN Append(acc.enemies_to_remove, idx)
                         ELSE acc.enemies_to_remove,
                     !.applied = Append(acc.applied, log),
                     !.credits = IF dead THEN Append(acc.credits, before.id)
                                 ELSE acc.credits])

ApplyStart(es) ==
    [enemies |-> es, coins |-> 0, exp |-> 0, defeated |-> 0, items |-> << >>,
     rolls |-> {}, enemies_to_remove |-> << >>, applied |-> << >>, credits |-> << >>]

(* The pairs the distance test of line 1190 is evaluated for. *)
NearCandidates(bs, es) ==
    { pr \in (1..Len(bs)) \X (1..Len(es)) :
        bs[pr[1]].is_player_bullet /\ es[pr[2]].health > 0 }

(* History only: the pairs of near, with the identity of the enemy and     *)
(* whether the bullet has damaged it since its last bounce.                *)
InRange(bs, es, near) ==
    { [bullet |-> pr[1], enemy_idx |-> pr[2], id |-> es[pr[2]].id,
       struck |-> es[pr[2]].id \in bs[pr[1]].struck] : pr \in near }

CheckCollisionsBullets(near) ==
    /\ pc = "check_collisions"
    /\ LET scans == [bi \in 1..Len(bullets) |-> ScanBullet(bullets[bi], bi, enemies, near)]
           hits == Flatten([bi \in 1..Len(bullets) |-> scans[bi].enemy_bullet_hits])
           explosions == Flatten([bi \in 1..Len(bullets) |-> scans[bi].explosion_damages])
           marked == { bi \in 1..Len(bullets) : scans[bi].should_remove }
           rolls == ApplyHits(hits, 1, {}, ApplyStart(enemies)).rolls
       IN  \E drops \in SUBSET rolls :
             LET r == ApplyHits(hits, 1, drops, ApplyStart(enemies))
             IN  /\ Len(items) + Len(r.items) <= MaxItems
                 /\ bullets' = [bi \in 1..Len(bullets) |-> BulletAfterScan(bullets[bi], scans[bi])]
                 /\ enemies' = r.enemies
                 /\ total_damage_dealt' =
                        total_damage_dealt + SeqSum([k \in 1..Len(hits) |-> hits[k].damage])
                 /\ current_session_coins' = current_session_coins + r.coins
                 /\ current_session_exp' = current_session_exp + r.exp
                 /\ enemies_defeated_this_session' = enemies_defeated_this_session + r.defeated
                 /\ coins' = coins + r.coins
                 /\ player' = AddExperience(player, r.exp)
                 /\ items' = items \o r.items
                 /\ cc' = [explosion_damages |-> explosions,
                           bullets_to_remove |-> marked,
                           enemies_to_remove |-> r.enemies_to_remove]
                 /\ trace' = [trace EXCEPT !.in_range = InRange(bullets, enemies, near),
                                           !.hits = hits, !.applied = r.applied,
                                           !.credits = r.credits,
                                           !.drops = r.items]
    /\ pc' = "check_collisions_rest"
    /\ UNCHANGED << state, dt, start_time, last_spawn_time, wins, available_upgrades,
                    game_result, rogue_selection_timer, current_rogue_options,
                    rogue_auto_selected, rogue_auto_selected_timer >>

----------------------------------------------------------------------------
(* Game::check_collisions, second step: explosions (lines 1277-1309),      *)
(* enemy bullets and enemies against the player (lines 1312-1329) and the  *)
(* removal pass (lines 1332-1356).                                         *)

(* Distance below 50 between the origin of an explosion (the position of   *)
(* the enemy at position o) and the enemy at position j; close is the set  *)
(* of pairs {i, j} of distinct enemies less than 50 units apart.           *)
Within50(o, j, close) == o = j \/ {o, j} \in close

(* The double loop over explosions and enemies (lines 1277-1309), from     *)
(* explosion k and enemy position j on.  drops is the set of pairs         *)
(* << k, j >> whose item roll is below 0.4.                                *)
RECURSIVE ApplyExplosions(_, _, _, _, _, _)
ApplyExplosions(explosions, k, j, close, drops, acc) ==
    IF k > Len(explosions) THEN acc
    ELSE IF j > Len(acc.enemies) THEN ApplyExplosions(explosions, k + 1, 1, close, drops, acc)
    ELSE LET before == acc.enemies[j]
         IN  IF ~(before.health > 0 /\ Within50(explosions[k].origin, j, close))
             THEN ApplyExplosions(explosions, k, j + 1, close, drops, acc)
             ELSE LET after == EnemyTakeDamage(before, explosions[k].damage)
                      dead == after.health <= 0
                      log == [id |-> before.id, enemy_type |-> before.enemy_type,
                              damage |-> explosions[k].damage,
                              invincible |-> before.is_invincible,
                              before |-> before.health, after |-> after.health,
                              state_before |-> before.special_state,
                              state_after |-> after.special_state]
                  IN  ApplyExplosions(explosions, k, j + 1, close, drops,
                          [acc EXCEPT
                              !.enemies = [acc.enemies EXCEPT ![j] = after],
                              !.damage = acc.damage + explosions[k].damage,
                              !.coins = IF dead THEN acc.coins + DropGold(after) ELSE acc.coins,
                              !.exp = IF dead THEN acc.exp + DropExp(after) ELSE acc.exp,
                              !.defeated = IF dead THEN acc.defeated + 1 ELSE acc.defeated,
                              !.items = IF dead /\ after.enemy_type = "Heavy" /\ << k, j >> \in drops
                                        THEN Append(acc.items, ItemNew("HealthPack", HealthPackValue))
                                        ELSE acc.items,
                              !.rolls = IF dead /\ after.enemy_type = "Heavy"
                                        THEN acc.rolls \cup { << k, j >> } ELSE acc.rolls,
                              !.enemies_to_remove =
                                  IF dead THEN Append(acc.enemies_to_remove, j)
                                  ELSE acc.enemies_to_remove,
                              !.applied = Append(acc.applied, log),
                              !.credits = IF dead THEN Append(acc.credits, before.id)
                                          ELSE acc.credits])

ExplosionStart(es) ==
    [enemies |-> es, damage |-> 0, coins |-> 0, exp |-> 0, defeated |-> 0,
     items |-> << >>, rolls |-> {}, enemies_to_remove |-> << >>, applied |-> << >>,
     credits |-> << >>]

(* The damage sources that reach the player, in the order of the code:     *)
(* the enemy bullets within 25 units (positions phits), then the enemies   *)
(* within 30 units (positions collide).                                    *)
PlayerDamages(bs, es, phits, collide) ==
    LET fromBullets == Retain([i \in 1..Len(bs) |-> bs[i].damage], (1..Len(bs)) \ phits)
        fromEnemies == Retain([i \in 1..Len(es) |-> es[i].collision_damage],
                              (1..Len(es)) \ collide)
    IN  fromBullets \o fromEnemies

(* Player::take_damage for each entry of damages from k on, with history. *)
RECURSIVE DamagePlayer(_, _, _)
DamagePlayer(damages, k, acc) ==
    IF k > Len(damages) THEN acc
    ELSE LET after == PlayerTakeDamage(acc.player, damages[k])
         IN  DamagePlayer(damages, k + 1,
                 [player |-> after,
                  log |-> Append(acc.log,
                                 [damage |-> damages[k],
                                  last_damage_time |-> acc.player.last_damage_time,
                                  invincibility_duration |-> acc.player.invincibility_duration,
                                  damage_reduction |-> acc.player.damage_reduction,
                                  before |-> acc.player.health,
                                  after |-> after.health])])

(* One pass of the loop of lines 1343-1356 for the enemy position idx:     *)
(* the enemy is removed and every hit-set is renumbered.                   *)
FixHitSet(hit_enemies, idx) ==
    { IF h > idx THEN h - 1 ELSE h : h \in hit_enemies \ {idx} }

(* Lines 1340-1356: idxs is enemies_to_remove sorted, deduplicated and     *)
(* reversed.                                                               *)
RECURSIVE RemoveEnemies(_, _, _)
RemoveEnemies(es, bs, idxs) ==
    IF idxs = << >> THEN [enemies |-> es, bullets |-> bs]
    ELSE LET idx == Head(idxs)
         IN  IF idx <= Len(es)
             THEN RemoveEnemies(
                      RemoveAt(es, idx),
                      [i \in 1..Len(bs) |->
                          [bs[i] EXCEPT !.hit_enemies = FixHitSet(bs[i].hit_enemies, idx),
                                        !.struck = bs[i].struck \ {es[idx].id}]],
                      Tail(idxs))
             ELSE RemoveEnemies(es, bs, Tail(idxs))

(* The elements of the set S of numbers as a descending sequence. *)
RECURSIVE Descending(_)
Descending(S) ==
    IF S = {} THEN << >>
    ELSE LET m == CHOOSE x \in S : \A y \in S : y <= x
         IN  << m >> \o Descending(S \ {m})

(* The pairs of distinct enemies whose distance matters to an explosion. *)
ClosePairs(explosions, es) ==
    IF explosions = << >> THEN {}
    ELSE { pr \in SUBSET (1..Len(es)) : Cardinality(pr) = 2 }

EnemyBulletPositions(bs) == { i \in 1..Len(bs) : ~bs[i].is_player_bullet }

CheckCollisionsRest(close, phits, collide) ==
    /\ pc = "check_collisions_rest"
    /\ LET rolls == ApplyExplosions(cc.explosion_damages, 1, 1, close, {},
                                    ExplosionStart(enemies)).rolls
       IN  \E drops \in SUBSET rolls :
             LET r == ApplyExplosions(cc.explosion_damages, 1, 1, close, drops,
                                      ExplosionStart(enemies))
                 hurt == DamagePlayer(PlayerDamages(bullets, r.enemies, phits, collide), 1,
                                      [player |-> AddExperience(player, r.exp), log |-> << >>])
                 kept == Retain(bullets, cc.bullets_to_remove \cup phits)
                 removed == RemoveEnemies(r.enemies, kept,
                                Descending(Range(cc.enemies_to_remove \o r.enemies_to_remove)))
             IN  /\ Len(items) + Len(r.items) <= MaxItems
                 /\ total_damage_dealt' = total_damage_dealt + r.damage
                 /\ current_session_coins' = current_session_coins + r.coins
                 /\ current_session_exp' = current_session_exp + r.exp
                 /\ enemies_defeated_this_session' = enemies_defeated_this_session + r.defeated
                 /\ coins' = coins + r.coins
                 /\ items' = items \o r.items
                 /\ player' = hurt.player
                 /\ enemies' = removed.enemies
                 /\ bullets' = removed.bullets
                 /\ trace' = [trace EXCEPT !.applied = trace.applied \o r.applied,
                                           !.credits = trace.credits \o r.credits,
                                           !.player_hits = hurt.log,
                                           !.drops = trace.drops \o r.items]
    /\ cc' = EmptyLocals
    /\ pc' = "check_item_collisions"
    /\ UNCHANGED << state, dt, start_time, last_spawn_time, wins, available_upgrades,
                    game_result, rogue_selection_timer, current_rogue_options,
                    rogue_auto_selected, rogue_auto_selected_timer >>

----------------------------------------------------------------------------
(* Game::check_item_collisions; picked is the set of positions of the      *)
(* items within 25 units of the player.                                    *)

(* Game::check_item_collisions without the clamp at max_health. *)
RECURSIVE PickItemsUnclamped(_, _, _, _)
PickItemsUnclamped(p, its, picked, i) ==
    IF i > Len(its) THEN p
    ELSE IF i \in picked
         THEN PickItemsUnclamped([p EXCEPT !.health = p.health + its[i].value],
                                 its, picked, i + 1)
         ELSE PickItemsUnclamped(p, its, picked, i + 1)

RECURSIVE PickItems(_, _, _, _)
PickItems(p, its, picked, i) ==
    IF i > Len(its) THEN p
    ELSE IF i \in picked
         THEN PickItems([p EXCEPT !.health = Min(p.health + its[i].value, p.max_health)],
                        its, picked, i + 1)
         ELSE PickItems(p, its, picked, i + 1)

CheckItemCollisions(picked) ==
    /\ pc = "check_item_collisions"
    /\ player' = PickItems(player, items, picked, 1)
    /\ items' = Retain(items, picked)
    /\ pc' = "check_game_over"
    /\ UNCHANGED << state, dt, enemies, bullets, start_time, last_spawn_time, coins, wins,
                    available_upgrades, current_session_coins, current_session_exp,
                    enemies_defeated_this_session, total_damage_dealt, game_result,
                    rogue_selection_timer, current_rogue_options, rogue_auto_selected,
                    rogue_auto_selected_timer, cc, trace >>

----------------------------------------------------------------------------
(* Match end: GameResult::new, Game::end_game, Game::reset_game_progress   *)

GameResultNew(p, victory, time, enemies_defeated, total_damage) ==
    [victory            |-> victory,
     final_level        |-> p.level,
     coins_earned       |-> 0,
     experience_gained  |-> 0,
     survival_time      |-> time,
     enemies_defeated   |-> enemies_defeated,
     total_damage_dealt |-> total_damage,
     weapon_used        |-> p.weapon.weapon_type]

(* Game::check_game_over deciding the victory on boss_ever_spawned alone. *)
GameOverVerdictOnClock(p, es, elapsed) ==
    IF p.health <= 0 THEN "defeat"
    ELSE IF elapsed >= Sec(180) THEN "victory"
    ELSE "none"

(* Game::check_game_over: "defeat", "victory" or "none". *)
GameOverVerdict(p, es, elapsed) ==
    IF p.health <= 0 THEN "defeat"
    ELSE IF elapsed >= Sec(180)
    THEN LET boss_alive == \E i \in 1..Len(es) : es[i].enemy_type = "Boss" /\ es[i].health > 0
             boss_ever_spawned == elapsed >= Sec(180)
         IN  IF boss_ever_spawned /\ ~boss_alive THEN "victory" ELSE "none"
    ELSE "none"

(* Game::end_game building the GameResult after reset_game_progress. *)
EndGameAfterReset(victory) ==
    /\ game_result' =
           << GameResultNew([PlayerNew EXCEPT !.weapon = player.weapon], victory,
                            start_time, 0, 0) >>
    /\ wins' = IF victory THEN wins + 1 ELSE wins
    /\ coins' = 0
    /\ player' = [PlayerNew EXCEPT !.weapon = player.weapon]
    /\ enemies' = << >>
    /\ bullets' = << >>
    /\ current_session_coins' = 0
    /\ current_session_exp' = 0
    /\ enemies_defeated_this_session' = 0
    /\ total_damage_dealt' = 0
    /\ available_upgrades' = InitRogueUpgrades
    /\ UNCHANGED items

(* Game::end_game followed by Game::reset_game_progress, but for the      *)
(* fields the level check of update_battle may still write.                *)
EndGame(victory) ==
    /\ game_result' =
           << [GameResultNew(player, victory, start_time, enemies_defeated_this_session,
                             total_damage_dealt)
                  EXCEPT !.coins_earned = current_session_coins,
                         !.experience_gained = current_session_exp] >>
    /\ wins' = IF victory THEN wins + 1 ELSE wins
    /\ coins' = 0
    /\ player' = [PlayerNew EXCEPT !.weapon = player.weapon]
    /\ enemies' = << >>
    /\ bullets' = << >>
    /\ current_session_coins' = 0
    /\ current_session_exp' = 0
    /\ enemies_defeated_this_session' = 0
    /\ total_damage_dealt' = 0
    /\ available_upgrades' = InitRogueUpgrades
    /\ UNCHANGED items

----------------------------------------------------------------------------
(* Rogue selection *)

(* Game::trigger_rogue_selection, from the pool `pool`. *)
TriggerRogueSelection(pool, draws) ==
    /\ current_rogue_options' = RogueOptions(pool, draws)
    /\ rogue_selection_timer' = 0
    /\ rogue_auto_selected' = FALSE
    /\ rogue_auto_selected_timer' = 0
    /\ state' = "RogueSelection"

(* update_battle without its level check. *)
LevelCheckSkipped(p, pool, s) ==
    /\ state' = s
    /\ UNCHANGED << rogue_selection_timer, current_rogue_options,
                    rogue_auto_selected, rogue_auto_selected_timer >>

(* The level check of update_battle (lines 682-685), for the player p, the *)
(* pool and the state s that check_game_over left.                         *)
LevelCheck(p, pool, s) ==
    IF p.experience >= p.experience_needed
    THEN \E draws \in OptionDraws(Len(pool)) : TriggerRogueSelection(pool, draws)
    ELSE /\ state' = s
         /\ UNCHANGED << rogue_selection_timer, current_rogue_options,
                         rogue_auto_selected, rogue_auto_selected_timer >>

(* Last step of Game::update_battle: check_game_over and the level check. *)
CheckGameOver ==
    /\ pc = "check_game_over"
    /\ LET verdict == GameOverVerdict(player, enemies, start_time)
       IN  IF verdict # "none"
           THEN /\ EndGame(verdict = "victory")
                /\ LevelCheck([PlayerNew EXCEPT !.weapon = player.weapon],
                              InitRogueUpgrades, "GameOver")
           ELSE /\ LevelCheck(player, available_upgrades, state)
                /\ UNCHANGED << player, enemies, bullets, items, coins, wins,
                                available_upgrades, current_session_coins,
                                current_session_exp, enemies_defeated_this_session,
                                total_damage_dealt, game_result >>
    /\ pc' = "idle"
    /\ trace' = EmptyTrace
    /\ UNCHANGED << dt, start_time, last_spawn_time, cc >>

(* Game::apply_upgrade_and_complete without the push to rogue_upgrades. *)
PlayerAfterUpgradeUnrecorded(p, upgrade) ==
    ApplyRogueUpgrade(p, upgrade.id)

(* Game::apply_upgrade_and_complete, on the player; rogue_upgrades keeps   *)
(* the ids of the upgrades pushed.                                         *)
PlayerAfterUpgrade(p, upgrade) ==
    [ApplyRogueUpgrade(p, upgrade.id) EXCEPT
        !.rogue_upgrades = Append(p.rogue_upgrades, upgrade.id)]

(* complete_rogue_selection always going back to the battle, whatever      *)
(* experience is left.                                                     *)
CompleteRogueSelectionToBattle(p, pool, auto_timer) ==
    /\ player' = LevelUp(p)
    /\ current_rogue_options' = << >>
    /\ state' = "Battle"
    /\ rogue_auto_selected_timer' = auto_timer
    /\ UNCHANGED << rogue_selection_timer, rogue_auto_selected >>

(* Game::complete_rogue_selection, for the player p (before the level-up)  *)
(* and the pool `pool`; auto_timer is the value rogue_auto_selected_timer  *)
(* has when it is called.                                                  *)
CompleteRogueSelection(p, pool, auto_timer) ==
    LET q == LevelUp(p)
    IN  /\ player' = q
        /\ IF q.experience >= q.experience_needed
           THEN \E draws \in OptionDraws(Len(pool)) : TriggerRogueSelection(pool, draws)
           ELSE /\ current_rogue_options' = << >>
                /\ state' = "Battle"
                /\ rogue_auto_selected_timer' = auto_timer
                /\ UNCHANGED << rogue_selection_timer, rogue_auto_selected >>

(* An update_rogue_selection that advances no timer of the selection. *)
UpdateRogueSelectionIdle(d, pick) ==
    /\ state = "RogueSelection"
    /\ pc = "idle"
    /\ pick = 0
    /\ ClockAdvance(d)
    /\ last_spawn_time' = Advance(last_spawn_time, d, Sec(1))
    /\ enemies' = [i \in 1..Len(enemies) |-> EnemyAged(enemies[i], d)]
    /\ player' = PlayerAged(player, d)
    /\ UNCHANGED << state, pc, bullets, items, coins, wins, available_upgrades,
                    current_session_coins, current_session_exp,
                    enemies_defeated_this_session, total_damage_dealt, game_result,
                    rogue_selection_timer, current_rogue_options, rogue_auto_selected,
                    rogue_auto_selected_timer, cc, trace >>

(* Game::update_rogue_selection (with auto_select_rogue_upgrade); d is     *)
(* get_frame_time() and pick the rng draw of the automatic selection.      *)
UpdateRogueSelection(d, pick) ==
    /\ state = "RogueSelection"
    /\ pc = "idle"
    /\ ClockAdvance(d)
    /\ last_spawn_time' = Advance(last_spawn_time, d, Sec(1))
    /\ enemies' = [i \in 1..Len(enemies) |-> EnemyAged(enemies[i], d)]
    /\ LET p == PlayerAged(player, d)
       IN  IF rogue_auto_selected
           THEN /\ pick = 0
                /\ IF rogue_auto_selected_timer + d >= Sec(2)
                   THEN CompleteRogueSelection(p, available_upgrades,
                                               rogue_auto_selected_timer + d)
                   ELSE /\ rogue_auto_selected_timer' = rogue_auto_selected_timer + d
                        /\ player' = p
                        /\ UNCHANGED << state, rogue_selection_timer,
                                        current_rogue_options, rogue_auto_selected >>
                /\ UNCHANGED available_upgrades
           ELSE /\ rogue_selection_timer' = rogue_selection_timer + d
                /\ IF rogue_selection_timer + d >= Sec(10)
                      /\ current_rogue_options # << >> /\ ~rogue_auto_selected
                   THEN /\ pick < Len(current_rogue_options)
                        /\ player' = PlayerAfterUpgrade(p, current_rogue_options[pick + 1])
                        /\ available_upgrades' =
                               PoolAfterApply(available_upgrades, current_rogue_options[pick + 1])
                        /\ rogue_auto_selected' = TRUE
                        /\ rogue_auto_selected_timer' = 0
                        /\ UNCHANGED << state, current_rogue_options >>
                   ELSE /\ pick = 0
                        /\ player' = p
                        /\ UNCHANGED << state, available_upgrades, current_rogue_options,
                                        rogue_auto_selected, rogue_auto_selected_timer >>
    /\ UNCHANGED << pc, bullets, items, coins, wins, current_session_coins,
                    current_session_exp, enemies_defeated_this_session,
                    total_damage_dealt, game_result, cc, trace >>

(* Game::select_rogue_upgrade taking the last offer for an index out of    *)
(* range.                                                                  *)
SelectRogueUpgradeClamped(option_index) ==
    /\ pc = "idle"
    /\ IF state # "RogueSelection" \/ rogue_auto_selected \/ current_rogue_options = << >>
       THEN UNCHANGED vars
       ELSE LET upgrade == current_rogue_options[Min(option_index + 1,
                                                     Len(current_rogue_options))]
                pool == PoolAfterApply(available_upgrades, upgrade)
            IN  /\ available_upgrades' = pool
                /\ CompleteRogueSelection(PlayerAfterUpgrade(player, upgrade), pool,
                                          rogue_auto_selected_timer)
                /\ UNCHANGED << pc, dt, enemies, bullets, items, start_time, last_spawn_time,
                                coins, wins, current_session_coins, current_session_exp,
                                enemies_defeated_this_session, total_damage_dealt,
                                game_result, cc, trace >>

(* Game::select_rogue_upgrade without the test of rogue_auto_selected. *)
SelectRogueUpgradeDuringDelay(option_index) ==
    /\ pc = "idle"
    /\ IF state # "RogueSelection"
       THEN UNCHANGED vars
       ELSE IF option_index < Len(current_rogue_options)
       THEN LET upgrade == current_rogue_options[option_index + 1]
                pool == PoolAfterApply(available_upgrades, upgrade)
            IN  /\ available_upgrades' = pool
                /\ CompleteRogueSelection(PlayerAfterUpgrade(player, upgrade), pool,
                                          rogue_auto_selected_timer)
                /\ UNCHANGED << pc, dt, enemies, bullets, items, start_time, last_spawn_time,
                                coins, wins, current_session_coins, current_session_exp,
                                enemies_defeated_this_session, total_damage_dealt,
                                game_result, cc, trace >>
       ELSE UNCHANGED vars

(* Game::select_rogue_upgrade *)
SelectRogueUpgrade(option_index) ==
    /\ pc = "idle"
    /\ IF state # "RogueSelection" \/ rogue_auto_selected
       THEN UNCHANGED vars
       ELSE IF option_index < Len(current_rogue_options)
       THEN LET upgrade == current_rogue_options[option_index + 1]
                pool == PoolAfterApply(available_upgrades, upgrade)
            IN  /\ available_upgrades' = pool
                /\ CompleteRogueSelection(PlayerAfterUpgrade(player, upgrade), pool,
                                          rogue_auto_selected_timer)
                /\ UNCHANGED << pc, dt, enemies, bullets, items, start_time, last_spawn_time,
                                coins, wins, current_session_coins, current_session_exp,
                                enemies_defeated_this_session, total_damage_dealt,
                                game_result, cc, trace >>
       ELSE UNCHANGED vars

----------------------------------------------------------------------------
(* Game::update in the states with no simulation (lines 647-653): only the *)
(* clock moves.                                                            *)
UpdateIdle(d) ==
    /\ state \in {"MainMenu", "WeaponSelect", "Login", "GameOver"}
    /\ pc = "idle"
    /\ ClockAdvance(d)
    /\ last_spawn_time' = Advance(last_spawn_time, d, Sec(1))
    /\ enemies' = [i \in 1..Len(enemies) |-> EnemyAged(enemies[i], d)]
    /\ player' = PlayerAged(player, d)
    /\ UNCHANGED << state, pc, bullets, items, coins, wins, available_upgrades,
                    current_session_coins, current_session_exp,
                    enemies_defeated_this_session, total_damage_dealt, game_result,
                    rogue_selection_timer, current_rogue_options, rogue_auto_selected,
                    rogue_auto_selected_timer, cc, trace >>

----------------------------------------------------------------------------
(* Commands: handle_input_macroquad, Game::select_weapon,                  *)
(* Game::start_battle, Game::login_attempt                                 *)

(* Everything but the state. *)
battle_vars == << pc, dt, player, enemies, bullets, items, start_time,
                  last_spawn_time, coins, wins, available_upgrades,
                  current_session_coins, current_session_exp,
                  enemies_defeated_this_session, total_damage_dealt, game_result,
                  rogue_selection_timer, current_rogue_options, rogue_auto_selected,
                  rogue_auto_selected_timer, cc, trace >>

(* A key that only changes the state (lines 1685-1750). *)
KeyTransition(from, to) ==
    /\ pc = "idle"
    /\ state = from
    /\ state' = to
    /\ UNCHANGED battle_vars

MainMenuStart == KeyTransition("MainMenu", "WeaponSelect")

MainMenuLogin == KeyTransition("MainMenu", "Login")

(* Game::login_attempt with a verified password (line 1561), or the Escape *)
(* key of the login screen (line 1809).                                    *)
LoginSuccess == KeyTransition("Login", "MainMenu")

WeaponSelectEscape == KeyTransition("WeaponSelect", "MainMenu")

(* The Escape key of the battle leading to the weapon screen. *)
BattleEscapeToWeaponSelect == KeyTransition("Battle", "WeaponSelect")

BattleEscape == KeyTransition("Battle", "MainMenu")

GameOverRestart == KeyTransition("GameOver", "WeaponSelect")

GameOverEscape == KeyTransition("GameOver", "MainMenu")

(* Game::start_battle keeping the player of the last match. *)
StartBattleKeepingPlayer(weapon) ==
    /\ state' = "Battle"
    /\ start_time' = 0
    /\ player' = [player EXCEPT !.weapon = weapon]
    /\ enemies' = << >>
    /\ bullets' = << >>
    /\ items' = << >>
    /\ current_session_coins' = 0
    /\ current_session_exp' = 0
    /\ enemies_defeated_this_session' = 0
    /\ total_damage_dealt' = 0
    /\ game_result' = << >>
    /\ available_upgrades' = InitRogueUpgrades

(* Game::start_battle, for the weapon the player holds. *)
StartBattle(weapon) ==
    /\ state' = "Battle"
    /\ start_time' = 0
    /\ player' = [PlayerNew EXCEPT !.weapon = weapon]
    /\ enemies' = << >>
    /\ bullets' = << >>
    /\ items' = << >>
    /\ current_session_coins' = 0
    /\ current_session_exp' = 0
    /\ enemies_defeated_this_session' = 0
    /\ total_damage_dealt' = 0
    /\ game_result' = << >>
    /\ available_upgrades' = InitRogueUpgrades

(* Game::select_weapon, called from the WeaponSelect keys. *)
SelectWeapon(weapon_type) ==
    /\ pc = "idle"
    /\ state = "WeaponSelect"
    /\ StartBattle(WeaponNew(weapon_type))
    /\ UNCHANGED << pc, dt, last_spawn_time, coins, wins, rogue_selection_timer,
                    current_rogue_options, rogue_auto_selected,
                    rogue_auto_selected_timer, cc, trace >>

----------------------------------------------------------------------------
(* The state after Game::new *)

Init ==
    /\ state = "MainMenu"
    /\ pc = "idle"
    /\ dt = 0
    /\ player = PlayerNew
    /\ enemies = << >>
    /\ bullets = << >>
    /\ items = << >>
    /\ start_time = 0
    /\ last_spawn_time = 0
    /\ coins = 0
    /\ wins = 0
    /\ available_upgrades = InitRogueUpgrades
    /\ current_session_coins = 0
    /\ current_session_exp = 0
    /\ enemies_defeated_this_session = 0
    /\ total_damage_dealt = 0
    /\ game_result = << >>
    /\ rogue_selection_timer = 0
    /\ current_rogue_options = << >>
    /\ rogue_auto_selected = FALSE
    /\ rogue_auto_selected_timer = 0
    /\ cc = EmptyLocals
    /\ trace = EmptyTrace

(* The steps of a frame that has started. *)
FrameRest ==
    \/ \E reach \in SUBSET CanReach(enemies, dt), gone \in SUBSET CanLeave(enemies) :
         /\ MustReach(enemies, dt) \subseteq reach
         /\ UpdateEnemies(reach, gone)
    \/ \E xs \in SUBSET Bouncers(bullets), ys \in SUBSET Bouncers(bullets),
          out \in SUBSET ((1..Len(bullets)) \ Bouncers(bullets)),
          lost \in SUBSET (1..Len(items)) :
         UpdateBullets(xs, ys, out, lost)
    \/ \E near \in SUBSET NearCandidates(bullets, enemies) : CheckCollisionsBullets(near)
    \/ \E close \in SUBSET ClosePairs(cc.explosion_damages, enemies),
          phits \in SUBSET EnemyBulletPositions(bullets),
          collide \in SUBSET (1..Len(enemies)) :
         CheckCollisionsRest(close, phits, collide)
    \/ \E picked \in SUBSET (1..Len(items)) : CheckItemCollisions(picked)
    \/ CheckGameOver

(* One frame step of the battle, with its inputs; a frame starts only     *)
(* while the match clock is below `until`.                                 *)
BattleStep(until) ==
    \/ \E d \in FrameDeltas : start_time < until /\ UpdateBattle(d)
    \/ FrameRest

RogueStep ==
    \/ \E d \in FrameDeltas, pick \in 0..2 : UpdateRogueSelection(d, pick)
    \/ \E option_index \in 0..3 : SelectRogueUpgrade(option_index)

MenuStep ==
    \/ \E d \in FrameDeltas : UpdateIdle(d)
    \/ MainMenuStart
    \/ MainMenuLogin
    \/ LoginSuccess
    \/ WeaponSelectEscape
    \/ BattleEscape
    \/ GameOverRestart
    \/ GameOverEscape
    \/ \E weapon_type \in WeaponTypes : SelectWeapon(weapon_type)

(* The match clock saturates at ElapsedCap seconds. *)
Forever == Sec(ElapsedCap) + 1

Next == BattleStep(Forever) \/ RogueStep \/ MenuStep

Spec == Init /\ [][Next]_vars

----------------------------------------------------------------------------
(* Scenarios: matches in progress.  Each scenario starts from a family of  *)
(* states a match passes through, between two frames, and runs the frames  *)
(* of a window of WindowSeconds seconds.                                   *)

WindowSeconds == 1

(* The session totals after the kills of `heavies` Heavies and `scouts`    *)
(* Scouts, one at a time, and `wounds` points of damage to living enemies. *)
Session(heavies, scouts, wounds) ==
    [coins    |-> 20 * heavies + 10 * scouts,
     exp      |-> 30 * heavies + 20 * scouts,
     defeated |-> heavies + scouts,
     damage   |-> HeavyHealth * heavies + ScoutHealth * scouts + wounds]

(* A match between two frames.  st is the state, p the player, es the      *)
(* enemies, its the items, elapsed the match clock, pool the upgrades      *)
(* still on offer, options the open offer (none in Battle; the last offer  *)
(* was then answered by hand after 2 s) and sess the session totals.       *)
Scene(st, p, es, its, elapsed, pool, options, sess) ==
    /\ state = st
    /\ pc = "idle"
    /\ dt = 1
    /\ player = p
    /\ enemies = es
    /\ bullets = << >>
    /\ items = its
    /\ start_time = elapsed
    /\ last_spawn_time = 1
    /\ coins = sess.coins
    /\ wins = 0
    /\ available_upgrades = pool
    /\ current_session_coins = sess.coins
    /\ current_session_exp = sess.exp
    /\ enemies_defeated_this_session = sess.defeated
    /\ total_damage_dealt = sess.damage
    /\ game_result = << >>
    /\ rogue_selection_timer =
           IF st = "Battle" /\ p.rogue_upgrades # << >> THEN Sec(2) ELSE 0
    /\ current_rogue_options = options
    /\ rogue_auto_selected = FALSE
    /\ rogue_auto_selected_timer = 0
    /\ cc = EmptyLocals
    /\ trace = EmptyTrace

(* An enemy of the given type that has lost `lost` health points and last  *)
(* acted `shot` half seconds ago.                                          *)
Wounded(enemy_type, lost, shot, id) ==
    [EnemyNew(enemy_type, 1, id) EXCEPT
        !.health = EnemyStats(enemy_type).health - lost,
        !.last_shot_time = shot]

(* The player p after `hits` collisions with Scouts (5 points each), the   *)
(* last one at least 1 s ago, who last fired `shot` half seconds ago.      *)
Bruised(p, hits, shot) ==
    [p EXCEPT !.health = p.health - 5 * hits,
              !.last_damage_time = Sec(1),
              !.invincibility_duration = IF hits > 0 THEN Sec(1) ELSE 0,
              !.last_shot_time = shot]

(* The player and the pool after the level-ups that chose the upgrades     *)
(* ids, each at the moment its threshold was reached exactly.              *)
RECURSIVE Promoted(_, _, _)
Promoted(p, pool, ids) ==
    IF ids = << >> THEN [player |-> p, pool |-> pool]
    ELSE LET upgrade == CHOOSE u \in Range(pool) : u.id = Head(ids)
             chosen == PlayerAfterUpgrade([p EXCEPT !.experience = p.experience_needed],
                                          upgrade)
         IN  Promoted(LevelUp(chosen), PoolAfterApply(pool, upgrade), Tail(ids))

(* Every scenario but the Boss fight starts 44 s into the match, after the *)
(* three Heavies of the match so far were shot.                            *)
ScenarioStart == Sec(44)

ScenarioEnd == ScenarioStart + Sec(WindowSeconds)

(* Skirmish: a level 1 player with 90 experience points against the        *)
(* Scouts of the last wave, one of them 2 or 4 points from death, and the  *)
(* Carrier of the match, 4 s after its spawn.                              *)
SkirmishEnemies(weapon_type) ==
    LET lost == IF weapon_type = "MachineGun" THEN 18 ELSE 16
    IN  { << Wounded("Scout", lost, 0, 0) >>,
          << Wounded("Scout", 0, 0, 0), Wounded("Scout", lost, 0, 1) >>,
          << Wounded("Scout", 0, 0, 0), Wounded("Scout", 0, 0, 1),
             Wounded("Carrier", 0, Sec(4), 2) >> }

InitSkirmish ==
    \E weapon_type \in {"MachineGun", "Laser"}, hits \in {0, 3} :
      \E es \in SkirmishEnemies(weapon_type) :
        LET sess == Session(3, 0, SeqSum([i \in 1..Len(es) |-> es[i].max_health - es[i].health]))
            p == [PlayerNew EXCEPT !.weapon = WeaponNew(weapon_type), !.experience = sess.exp]
        IN  Scene("Battle", Bruised(p, hits, 1), es, << >>, ScenarioStart,
                  InitRogueUpgrades, << >>, sess)

NextSkirmish == BattleStep(ScenarioEnd)

SpecSkirmish == InitSkirmish /\ [][NextSkirmish]_vars

(* Pierce: a player of level 2 or 3 whose upgrades were all Piercing, with *)
(* a machine gun, against two Scouts and the Carrier, just spawned.        *)
InitPierce ==
    \E n \in {1, 2} :
      LET es == << Wounded("Scout", 0, 0, 0), Wounded("Scout", 18, 0, 1),
                   Wounded("Carrier", 0, 0, 2) >>
          sess == Session(3, IF n = 1 THEN 1 ELSE 11, 18)
          r == Promoted(PlayerNew, InitRogueUpgrades, [k \in 1..n |-> 9])
          p == [r.player EXCEPT !.experience = 10]
      IN  Scene("Battle", Bruised(p, 0, 1), es, << >>, ScenarioStart,
                r.pool, << >>, sess)

NextPierce == BattleStep(ScenarioEnd)

SpecPierce == InitPierce /\ [][NextPierce]_vars

(* Boss fight: the match clock has passed 180 s and every Heavy of the     *)
(* match was shot; the player is at level 8, all seven upgrades were       *)
(* Attack boost (16 points a bullet).  The Boss has just spawned, or       *)
(* spawned 1.5 s ago and took the four bullets of two volleys.             *)
BossAfter(hits, age) ==
    [EnemyNew("Boss", 1, 0) EXCEPT
        !.health = BossHealth - 16 * hits,
        !.spawn_time = age,
        !.last_shot_time = age,
        !.has_reached_zone = age >= Sec(1)]

InitBoss ==
    \E fight \in { [hits |-> 0, age |-> 0, shot |-> 1],
                   [hits |-> 4, age |-> 3, shot |-> 0] } :
      LET r == Promoted(PlayerNew, InitRogueUpgrades, [k \in 1..7 |-> 1])
          p == [r.player EXCEPT !.experience = 10]
      IN  Scene("Battle", Bruised(p, 0, fight.shot),
                << BossAfter(fight.hits, fight.age) >>, << >>, Sec(ElapsedCap),
                r.pool, << >>, Session(51, 64, 16 * fight.hits))

NextBoss == BattleStep(Forever)

SpecBoss == InitBoss /\ [][NextBoss]_vars

(* Level-up: a battle tick has just opened an offer.  Either a level 1     *)
(* player with 5 health points, 44 s into the match, has shot the third    *)
(* Heavy, which dropped a health pack; or a level 5 player whose upgrades  *)
(* were all Multi-shot, 104 s into the match.  The tick brought the        *)
(* experience over the threshold of the level, or of the next level too.   *)
(* Only the frame that starts at the scenario's first instant is run.      *)
FirstDraws == { << 0, 0, 0 >>, << 4, 0, 4 >> }

InitLevelUp ==
    \/ \E draws \in FirstDraws :
           LET chain == FALSE
               es == << Wounded("Scout", 18, 0, 0), Wounded("Carrier", 0, 0, 1) >>
               sess == Session(3, IF chain THEN 11 ELSE 1, 18)
               p == [PlayerNew EXCEPT !.experience = sess.exp]
           IN  Scene("RogueSelection", Bruised(p, 3, 1), es,
                     << ItemNew("HealthPack", HealthPackValue) >>, ScenarioStart,
                     InitRogueUpgrades, RogueOptions(InitRogueUpgrades, draws), sess)
    \/ \E chain \in BOOLEAN :
         LET r == Promoted(PlayerNew, InitRogueUpgrades, [k \in 1..4 |-> 4])
             sess == Session(18, IF chain THEN 78 ELSE 48, 0)
             p == [r.player EXCEPT !.experience = sess.exp - 1000]
         IN  Scene("RogueSelection", Bruised(p, 0, 1), << Wounded("Scout", 0, 0, 0) >>,
                   << >>, Sec(104), r.pool, RogueOptions(r.pool, << 4, 0, 4 >>), sess)

NextLevelUp == BattleStep(ScenarioStart + 1) \/ RogueStep

SpecLevelUp == InitLevelUp /\ [][NextLevelUp]_vars

(* Match: the end of a match and what follows it.  The two families are:   *)
(*  - 44 s into the match, a level 1 player with a machine gun, unhurt or  *)
(*    with 5 health points, against one Scout or one Heavy 2 points from   *)
(*    death, with or without a health pack lying in the arena;             *)
(*  - the end of the Boss fight: the level 8 player of the Boss fight      *)
(*    against the Boss in its second phase, no longer invincible, one or   *)
(*    two bullets from death.                                              *)
(* The keys of every screen are available.                                 *)
BossDying(bullets_left) ==
    [EnemyNew("Boss", 1, 0) EXCEPT
        !.health = 16 * bullets_left,
        !.special_state = 2,
        !.spawn_time = Sec(6),
        !.has_reached_zone = TRUE]

MidMatch ==
    \E hits \in {0, 3}, enemy_type \in {"Scout", "Heavy"},
       its \in { << >>, << ItemNew("HealthPack", HealthPackValue) >> } :
      LET lost == EnemyStats(enemy_type).health - 2
          es == << [Wounded(enemy_type, lost, 0, 0) EXCEPT
                       !.has_reached_zone = enemy_type = "Heavy"] >>
          sess == Session(IF enemy_type = "Heavy" THEN 2 ELSE 3, 0, lost)
          p == [PlayerNew EXCEPT !.experience = 90]
      IN  Scene("Battle", Bruised(p, hits, 1), es, its, ScenarioStart,
                InitRogueUpgrades, << >>,
                [sess EXCEPT !.exp = 90, !.coins = 60])

BossEnd ==
    \E bullets_left \in {1, 2}, hits \in {0, 3} :
      LET r == Promoted(PlayerNew, InitRogueUpgrades, [k \in 1..7 |-> 1])
          p == [r.player EXCEPT !.experience = 10]
      IN  Scene("Battle", Bruised(p, hits, 1), << BossDying(bullets_left) >>, << >>,
                Sec(ElapsedCap), r.pool, << >>,
                Session(51, 64, BossHealth - 16 * bullets_left))

InitMatch == MidMatch \/ BossEnd

(* A frame starts at the scenario's first instant and during the Boss     *)
(* fight; a match started from the weapon screen is left at its first      *)
(* instant.                                                                *)
MatchFrames ==
    start_time >= Sec(ElapsedCap) \/ start_time = ScenarioStart

(* Keys are pressed, and the clock of a screen moves, while the match      *)
(* clock is inside the window of the scenario.                             *)
MatchRuns ==
    \/ start_time >= Sec(ElapsedCap)
    \/ start_time >= ScenarioStart /\ start_time < ScenarioEnd

NextMatch ==
    \/ \E d \in FrameDeltas : MatchFrames /\ UpdateBattle(d)
    \/ FrameRest
    \/ \E d \in FrameDeltas, pick \in 0..2 : MatchRuns /\ UpdateRogueSelection(d, pick)
    \/ \E option_index \in 0..3 : MatchRuns /\ SelectRogueUpgrade(option_index)
    \/ \E d \in FrameDeltas : MatchRuns /\ UpdateIdle(d)
    \/ MatchRuns /\ MainMenuStart
    \/ MatchRuns /\ MainMenuLogin
    \/ MatchRuns /\ LoginSuccess
    \/ MatchRuns /\ WeaponSelectEscape
    \/ MatchRuns /\ BattleEscape
    \/ MatchRuns /\ GameOverRestart
    \/ MatchRuns /\ GameOverEscape
    \/ \E weapon_type \in WeaponTypes : MatchRuns /\ SelectWeapon(weapon_type)

SpecMatch == InitMatch /\ [][NextMatch]_vars

(* Eve of the Boss: a second and a half before the Boss is due, a level 1  *)
(* player with a machine gun against a Scout or the Carrier.               *)
InitBossEve ==
    \E enemy_type \in {"Scout", "Carrier"} :
      Scene("Battle", Bruised([PlayerNew EXCEPT !.experience = 10], 0, 1),
            << Wounded(enemy_type, 0, 0, 0) >>, << >>, Sec(ElapsedCap) - 3,
            InitRogueUpgrades, << >>, Session(3, 1, 0))

NextBossEve == BattleStep(Forever)

SpecBossEve == InitBossEve /\ [][NextBossEve]_vars

(* Blast: a player of level 2 or 3 whose upgrades were all Explosion, with *)
(* a laser (4 points a bullet, so 1 or 2 points an explosion), against two *)
(* Scouts of the last wave, one of them hit once.                          *)
InitBlast ==
    \E n \in {1, 2} :
      LET es == << Wounded("Scout", 0, 0, 0), Wounded("Scout", 4, 0, 1) >>
          sess == Session(3, IF n = 1 THEN 1 ELSE 11, 4)
          r == Promoted([PlayerNew EXCEPT !.weapon = WeaponNew("Laser")],
                        InitRogueUpgrades, [k \in 1..n |-> 5])
          p == [r.player EXCEPT !.experience = 10]
      IN  Scene("Battle", Bruised(p, 0, 1), es, << >>, ScenarioStart,
                r.pool, << >>, sess)

NextBlast == BattleStep(ScenarioEnd)

SpecBlast == InitBlast /\ [][NextBlast]_vars

----------------------------------------------------------------------------
(* Properties of the combat resolver *)

(* C2: between two of its bounces, and whatever enemies were spawned, left *)
(* the arena or were killed in the meantime, a player bullet never applies *)
(* its damage to an enemy it has already damaged.                          *)
C2_DamagesEnemyAtMostOnce ==
    \A k \in 1..Len(trace.hits) : ~trace.hits[k].again

(* The hits the bullet at position bi scored in the frame. *)
HitsOf(bi) == { k \in 1..Len(trace.hits) : trace.hits[k].bullet = bi }

(* The enemies in range of the bullet at position bi in the frame. *)
InRangeOf(bi) == { r \in trace.in_range : r.bullet = bi }

C9_InvincibilityWindow ==
    \A k \in 1..Len(trace.player_hits) :
        LET h == trace.player_hits[k]
        IN  (h.invincibility_duration > 0 /\ h.last_damage_time < Sec(1))
            => h.after = h.before

(* A second hit lands 0.5 s after a damaging one and does nothing. *)
C9_Witness ==
    \E k \in 1..Len(trace.player_hits) :
        LET h == trace.player_hits[k]
        IN  /\ h.invincibility_duration = Sec(1)
            /\ h.last_damage_time = 1
            /\ h.damage > 0
            /\ h.before < PlayerNew.max_health
            /\ h.after = h.before

(* The damage applications of the step just taken. *)
NewlyApplied == SubSeq(trace'.applied, Len(trace.applied) + 1, Len(trace'.applied))

(* The applications of the step just taken that took an enemy from life to *)
(* death.                                                                  *)
Kills ==
    LET IsKill(log) == log.before > 0 /\ log.after <= 0
    IN  SelectSeq(NewlyApplied, IsKill)

(* The drop gold and the drop experience of the enemies killed. *)
KillGold == SeqSum([k \in 1..Len(Kills) |-> DropGold(Kills[k])])

KillExp == SeqSum([k \in 1..Len(Kills) |-> DropExp(Kills[k])])

(* C10: a step of the combat resolver credits each enemy it kills exactly  *)
(* once: its drop gold to coins and current_session_coins, its drop        *)
(* experience to the player and current_session_exp, and 1 to              *)
(* enemies_defeated_this_session, however many bullets struck the enemy.   *)
C10_KillCreditedOnce ==
    [][ (pc \in {"check_collisions", "check_collisions_rest"} /\ pc' # pc) =>
          /\ coins' = coins + KillGold
          /\ current_session_coins' = current_session_coins + KillGold
          /\ player'.experience = player.experience + KillExp
          /\ current_session_exp' = current_session_exp + KillExp
          /\ enemies_defeated_this_session' =
                 enemies_defeated_this_session + Len(Kills) ]_vars

(* C4: a player bullet created with a finite piercing budget N > 0 is      *)
(* marked for removal exactly when it has damaged N + 1 enemies, in one    *)
(* tick or in several, and never damages more.                             *)
C4_RemovedAtHitNPlusOne ==
    pc = "check_collisions_rest" =>
        \A bi \in 1..Len(bullets) :
            (/\ bullets[bi].is_player_bullet
             /\ bullets[bi].budget > 0
             /\ bullets[bi].budget < LaserPiercing)
            => /\ bullets[bi].hits <= bullets[bi].budget + 1
               /\ bi \in cc.bullets_to_remove <=> bullets[bi].hits = bullets[bi].budget + 1

(* The Bosses of a collection. *)
Bosses(es) == { es[i] : i \in { j \in 1..Len(es) : es[j].enemy_type = "Boss" } }

(* C5: every call of take_damage on a Boss in phase 1 moves it to phase 2  *)
(* exactly if it leaves the health at 75 or below, so a Boss in phase 1    *)
(* has more than 75 health; a Boss in phase 2 never returns to phase 1;    *)
(* and a call made while the Boss is invincible leaves its health          *)
(* unchanged.                                                              *)
C5_BossPhase ==
    /\ [](/\ \A k \in 1..Len(trace.applied) :
               LET a == trace.applied[k]
               IN  a.enemy_type = "Boss" =>
                     /\ a.state_before = 1 => (a.state_after = 2 <=> a.after <= BossPhaseHealth)
                     /\ a.state_before = 2 => a.state_after = 2
                     /\ a.invincible => a.after = a.before
          /\ \A b \in Bosses(enemies) :
               /\ b.special_state \in {1, 2}
               /\ b.special_state = 1 => b.health > BossPhaseHealth)
    /\ [][\A b \in Bosses(enemies), c \in Bosses(enemies') :
            (b.id = c.id /\ b.special_state = 2) => c.special_state = 2]_vars

(* In one frame a hit takes the Boss to phase 2 and a later hit finds it   *)
(* invincible.                                                             *)
C5_Witness ==
    \E k, m \in 1..Len(trace.applied) :
        /\ k < m
        /\ trace.applied[k].enemy_type = "Boss"
        /\ trace.applied[k].state_before = 1
        /\ trace.applied[k].state_after = 2
        /\ trace.applied[k].before > BossPhaseHealth
        /\ trace.applied[m].enemy_type = "Boss"
        /\ trace.applied[m].invincible
        /\ trace.applied[m].damage > 0
        /\ trace.applied[m].after = trace.applied[m].before

(* C8: when a battle tick ends with the player's experience at or over the *)
(* threshold and the match not over, the state is RogueSelection and the   *)
(* offer holds min(3, size of the pool) upgrades, pairwise distinct by id, *)
(* each in the pool and below its cap.                                     *)
C8_LevelUpOffer ==
    [][ (/\ pc = "check_game_over" /\ pc' = "idle"
         /\ player'.experience >= player'.experience_needed
         /\ state' # "GameOver")
        => /\ state' = "RogueSelection"
           /\ Len(current_rogue_options') = Min(3, Len(available_upgrades'))
           /\ \A i, j \in 1..Len(current_rogue_options') :
                i # j => current_rogue_options'[i].id # current_rogue_options'[j].id
           /\ \A i \in 1..Len(current_rogue_options') :
                LET u == current_rogue_options'[i]
                IN  /\ u \in Range(available_upgrades')
                    /\ u.max_selections = << >>
                         \/ u.current_selections < u.max_selections[1] ]_vars

(* A battle tick has just opened an offer of three upgrades. *)
C8_Witness ==
    /\ state = "RogueSelection"
    /\ pc = "idle"
    /\ rogue_selection_timer = 0
    /\ player.experience >= player.experience_needed
    /\ enemies_defeated_this_session > 3
    /\ Len(current_rogue_options) = 3

----------------------------------------------------------------------------
(* Properties of health and of the level-up *)

(* C1: the player's health stays between 0 and max_health, and so does the *)
(* health of every enemy in the collection.                                *)
C1_HealthBounds ==
    /\ 0 <= player.health /\ player.health <= player.max_health
    /\ \A i \in 1..Len(enemies) :
         0 <= enemies[i].health /\ enemies[i].health <= enemies[i].max_health

(* In one frame, after the Health boost, the player was hurt, an enemy was *)
(* damaged and a health pack filled the player's health up to the new      *)
(* maximum.                                                                *)
C1_Witness ==
    /\ pc = "check_game_over"
    /\ player.max_health = PlayerNew.max_health + 3
    /\ player.health = player.max_health
    /\ \E k \in 1..Len(trace.player_hits) :
         trace.player_hits[k].after < trace.player_hits[k].before
    /\ \E k \in 1..Len(trace.applied) :
         trace.applied[k].after < trace.applied[k].before

(* The number of times Multi-shot was applied in the match. *)
MultiShotApplied == Count(player.rogue_upgrades, 4)

(* C6: Multi-shot is applied at most MultiShotCap times in a match; once   *)
(* it was applied that often it is not in the pool, and in no offer but    *)
(* the one the automatic selection has just answered, which stays on       *)
(* display until the level-up completes.                                   *)
C6_StackingCap ==
    /\ MultiShotApplied <= MultiShotCap
    /\ player.bullet_count_bonus = MultiShotApplied
    /\ MultiShotApplied >= MultiShotCap =>
         /\ 4 \notin UpgradeIds(available_upgrades)
         /\ 4 \in UpgradeIds(current_rogue_options) =>
              (state = "RogueSelection" /\ rogue_auto_selected)

(* An offer opened after the fifth application of Multi-shot. *)
C6_Witness ==
    /\ MultiShotApplied = MultiShotCap
    /\ state = "RogueSelection"
    /\ ~rogue_auto_selected
    /\ Len(current_rogue_options) = 3
    /\ Len(available_upgrades) = Len(InitRogueUpgrades) - 1

(* C7: in RogueSelection the automatic selection happens when the          *)
(* selection timer reaches 10 s, and not before; it applies exactly one    *)
(* upgrade, from the offer, and leaves the offer and the state as they     *)
(* are; from then on nothing more is applied, and the level-up completes   *)
(* exactly when 2 more seconds have passed, to Battle or, with the         *)
(* experience still over the threshold, to a new offer.                    *)
C7_AutoSelection ==
    [][ state = "RogueSelection" =>
          /\ (~rogue_auto_selected /\ rogue_auto_selected') =>
               /\ rogue_selection_timer' >= Sec(10)
               /\ state' = "RogueSelection"
               /\ current_rogue_options' = current_rogue_options
               /\ player'.level = player.level
               /\ \E k \in 1..Len(current_rogue_options) :
                    player'.rogue_upgrades =
                        Append(player.rogue_upgrades, current_rogue_options[k].id)
          /\ (/\ ~rogue_auto_selected /\ rogue_selection_timer < Sec(10)
              /\ rogue_selection_timer' >= Sec(10)) => rogue_auto_selected'
          /\ rogue_auto_selected =>
               IF rogue_auto_selected_timer' # rogue_auto_selected_timer
                  /\ rogue_auto_selected_timer + dt' >= Sec(2)
               THEN /\ player'.level = player.level + 1
                    /\ player'.rogue_upgrades = player.rogue_upgrades
                    /\ IF player'.experience >= player'.experience_needed
                       THEN /\ state' = "RogueSelection" /\ ~rogue_auto_selected'
                            /\ rogue_selection_timer' = 0
                       ELSE state' = "Battle"
               ELSE /\ state' = "RogueSelection"
                    /\ rogue_auto_selected'
                    /\ player'.level = player.level
                    /\ player'.rogue_upgrades = player.rogue_upgrades ]_vars

(* The automatic selection has applied an upgrade and its 2 s are running. *)
C7_Witness ==
    /\ state = "RogueSelection"
    /\ rogue_auto_selected
    /\ rogue_selection_timer >= Sec(10)
    /\ rogue_auto_selected_timer = Sec(1)
    /\ Len(player.rogue_upgrades) = player.level

----------------------------------------------------------------------------
(* Properties of the match: drops, screens, the end of a match, its start *)

(* The Heavies the step just taken killed. *)
HeaviesKilled == { Kills[k].id : k \in { j \in 1..Len(Kills) : Kills[j].enemy_type = "Heavy" } }

(* C11: a step adds items only for the Heavies it kills, at most one       *)
(* HealthPack for each of them: the death of a Scout, a Carrier or a Boss, *)
(* by bullet or by explosion, adds none.                                   *)
C11_ItemOnlyFromHeavyDeath ==
    [][ /\ Len(items') <= Len(items) + Cardinality(HeaviesKilled)
        /\ Len(items') > Len(items) => items'[Len(items')].item_type = "HealthPack" ]_vars

(* The state transitions the description of the screens lists. *)
ListedTransitions ==
    { << "MainMenu", "WeaponSelect" >>, << "MainMenu", "Login" >>,
      << "Login", "MainMenu" >>, << "WeaponSelect", "Battle" >>,
      << "Battle", "RogueSelection" >>, << "RogueSelection", "Battle" >>,
      << "Battle", "GameOver" >>, << "GameOver", "WeaponSelect" >>,
      << "GameOver", "MainMenu" >> }

(* The transitions of the Escape key in the weapon screen and in battle. *)
EscapeTransitions ==
    { << "WeaponSelect", "MainMenu" >>, << "Battle", "MainMenu" >> }

(* C12, as stated: the state changes only along the listed transitions;    *)
(* in particular Battle is left only to RogueSelection or GameOver.        *)
C12_OnlyListedTransitions ==
    [][ state' # state => << state, state' >> \in ListedTransitions ]_vars

(* C12, amended: the state changes only along the listed transitions and   *)
(* the two of the Escape key, WeaponSelect -> MainMenu and                 *)
(* Battle -> MainMenu; Battle is left only to RogueSelection, GameOver or  *)
(* MainMenu.                                                               *)
C12_TransitionsWithEscape ==
    [][ state' # state =>
            << state, state' >> \in ListedTransitions \cup EscapeTransitions ]_vars

(* The main menu was entered from a battle: its enemies are still there. *)
C12_Witness ==
    state = "MainMenu" /\ enemies # << >>

(* The step just taken built the GameResult of a victory. *)
VictoryDeclared ==
    /\ game_result' # game_result
    /\ game_result' # << >>
    /\ game_result'[1].victory

(* C13: a match ends in victory only in a tick whose elapsed time is at    *)
(* least 180 s, in which the damage of a bullet or of an explosion brought *)
(* the health of a Boss of the match to 0, and at whose end no Boss is     *)
(* alive.                                                                  *)
C13_VictoryOnlyOverBoss ==
    [][ VictoryDeclared =>
          /\ start_time >= Sec(180)
          /\ \E k \in 1..Len(trace.applied) :
                 /\ trace.applied[k].enemy_type = "Boss"
                 /\ trace.applied[k].before > 0
                 /\ trace.applied[k].after <= 0
          /\ \A i \in 1..Len(enemies) :
                 ~(enemies[i].enemy_type = "Boss" /\ enemies[i].health > 0) ]_vars

(* The match has ended in victory. *)
C13_Witness ==
    /\ state = "GameOver"
    /\ game_result # << >>
    /\ game_result[1].victory
    /\ wins = 1

(* The GameResult of the match in progress, were it to end now. *)
SnapshotNow ==
    [victory            |-> player.health > 0,
     final_level        |-> player.level,
     coins_earned       |-> current_session_coins,
     experience_gained  |-> current_session_exp,
     survival_time      |-> start_time,
     enemies_defeated   |-> enemies_defeated_this_session,
     total_damage_dealt |-> total_damage_dealt,
     weapon_used        |-> player.weapon.weapon_type]

(* C14: the GameResult is built only by the step that enters GameOver,     *)
(* from the values the match had before the reset of that step, and no     *)
(* tick and no key changes it while the state stays GameOver.              *)
C14_ResultBuiltOnce ==
    [][ /\ (state # "GameOver" /\ state' = "GameOver") => game_result' = << SnapshotNow >>
        /\ (game_result' # game_result /\ game_result' # << >>)
               => (state # "GameOver" /\ state' = "GameOver")
        /\ (state = "GameOver" /\ state' = "GameOver") => game_result' = game_result ]_vars

(* A match that earned coins has ended, the counters are reset and the     *)
(* clock has moved on in GameOver: the result still shows the match.       *)
C14_Witness ==
    /\ state = "GameOver"
    /\ game_result # << >>
    /\ game_result[1].coins_earned > 0
    /\ current_session_coins = 0
    /\ start_time > game_result[1].survival_time

(* C15: the step that enters GameOver leaves the enemy, bullet and item    *)
(* collections empty, coins and the session counters at 0, and the player  *)
(* with the weapon type of the finished match.                             *)
C15_ResetOnGameOver ==
    [][ (state # "GameOver" /\ state' = "GameOver") =>
          /\ enemies' = << >>
          /\ bullets' = << >>
          /\ items' = << >>
          /\ coins' = 0
          /\ current_session_coins' = 0
          /\ current_session_exp' = 0
          /\ enemies_defeated_this_session' = 0
          /\ total_damage_dealt' = 0
          /\ player'.weapon.weapon_type = player.weapon.weapon_type ]_vars

(* A player that no upgrade has touched. *)
NoUpgradeBonus(p) ==
    /\ p.rogue_upgrades = << >>
    /\ p.attack_power_bonus = 0
    /\ p.crit_rate = 0
    /\ p.crit_damage = 15
    /\ p.bullet_count_bonus = 0
    /\ p.piercing = 0
    /\ p.ricochet = 0
    /\ p.burning_damage = 0
    /\ p.explosion_damage = 0
    /\ p.damage_reduction = 0
    /\ p.bullet_speed_bonus = 0

(* C16: whatever happened before, the step from WeaponSelect to Battle     *)
(* leaves a player of level 1 with health 20 of 20, experience 0 and no    *)
(* upgrade bonus, carrying a fresh weapon; empty enemy, bullet and item    *)
(* collections; session counters at 0; no game_result; and the pool of all *)
(* 11 upgrades with zero stacks.                                           *)
C16_FreshMatch ==
    [][ (state = "WeaponSelect" /\ state' = "Battle") =>
          /\ player'.level = 1
          /\ player'.health = 20
          /\ player'.max_health = 20
          /\ player'.experience = 0
          /\ NoUpgradeBonus(player')
          /\ \E weapon_type \in WeaponTypes : player'.weapon = WeaponNew(weapon_type)
          /\ enemies' = << >>
          /\ bullets' = << >>
          /\ items' = << >>
          /\ current_session_coins' = 0
          /\ current_session_exp' = 0
          /\ enemies_defeated_this_session' = 0
          /\ total_damage_dealt' = 0
          /\ game_result' = << >>
          /\ Len(available_upgrades') = 11
          /\ UpgradeIds(available_upgrades') = 0..10
          /\ \A i \in 1..11 : available_upgrades'[i].current_selections = 0 ]_vars

(* A match was started with a shotgun after a battle left by Escape, whose *)
(* coins remain.                                                           *)
C16_Witness ==
    /\ state = "Battle"
    /\ start_time = 0
    /\ player.weapon.weapon_type = "Shotgun"
    /\ coins > 0

(* C17: select_rogue_upgrade(i) called while the state is not              *)
(* RogueSelection, or with i not below the number of current offers,       *)
(* changes nothing: no upgrade is applied, no level-up happens, the state  *)
(* stays.                                                                  *)
C17_RejectedSelection ==
    [][ \A i \in 0..3 :
          (/\ state # "RogueSelection" \/ i >= Len(current_rogue_options)
           /\ SelectRogueUpgrade(i))
          => UNCHANGED vars ]_vars

(* An offer of three upgrades has been open for a while and is not yet     *)
(* answered: the index 3 is out of range.                                  *)
C17_Witness ==
    /\ state = "RogueSelection"
    /\ pc = "idle"
    /\ ~rogue_auto_selected
    /\ Len(current_rogue_options) = 3
    /\ rogue_selection_timer > 0

----------------------------------------------------------------------------
(* The methods of Player and Enemy called alone, as mod tests does (lines  *)
(* 2604-2638): one Player and one Enemy are constructed and one method is  *)
(* called on them at a time.  trace keeps the last call, its argument and  *)
(* the receiver before the call.                                           *)

MaxUnitLevel == 3

UnitExps == {30, 100}

UnitDamages == {10, 40}

(* The enemies a method is called on: one of any type, new or already hit  *)
(* once; a Boss of the second phase, invincible or not.                    *)
UnitEnemies ==
    { Wounded(enemy_type, lost, 0, 0) : enemy_type \in EnemyTypes, lost \in {0, 10} }
    \cup { [EnemyNew("Boss", 1, 0) EXCEPT !.health = BossPhaseHealth - 5,
                                          !.special_state = 2,
                                          !.is_invincible = invincible] :
             invincible \in BOOLEAN }

InitUnit ==
    /\ state = "MainMenu"
    /\ pc = "idle"
    /\ dt = 0
    /\ player = PlayerNew
    /\ enemies \in { << e >> : e \in UnitEnemies }
    /\ bullets = << >>
    /\ items = << >>
    /\ start_time = 0
    /\ last_spawn_time = 0
    /\ coins = 0
    /\ wins = 0
    /\ available_upgrades = InitRogueUpgrades
    /\ current_session_coins = 0
    /\ current_session_exp = 0
    /\ enemies_defeated_this_session = 0
    /\ total_damage_dealt = 0
    /\ game_result = << >>
    /\ rogue_selection_timer = 0
    /\ current_rogue_options = << >>
    /\ rogue_auto_selected = FALSE
    /\ rogue_auto_selected_timer = 0
    /\ cc = EmptyLocals
    /\ trace = [call |-> "new", arg |-> 0, before |-> << >>]

UnitUnchanged ==
    UNCHANGED << state, pc, dt, bullets, items, start_time, last_spawn_time, coins, wins,
                 available_upgrades, current_session_coins, current_session_exp,
                 enemies_defeated_this_session, total_damage_dealt, game_result,
                 rogue_selection_timer, current_rogue_options, rogue_auto_selected,
                 rogue_auto_selected_timer, cc >>

(* player.add_experience(exp) *)
UnitAddExperience(exp) ==
    /\ player.experience + exp <= 2 * player.experience_needed
    /\ player' = AddExperience(player, exp)
    /\ trace' = [call |-> "add_experience", arg |-> exp, before |-> player]
    /\ UNCHANGED enemies
    /\ UnitUnchanged

(* player.level_up(), under the condition of its one caller (lines         *)
(* 682-685).                                                               *)
UnitLevelUp ==
    /\ player.experience >= player.experience_needed
    /\ player.level < MaxUnitLevel
    /\ player' = LevelUp(player)
    /\ trace' = [call |-> "level_up", arg |-> 0, before |-> player]
    /\ UNCHANGED enemies
    /\ UnitUnchanged

(* enemy.take_damage(damage) *)
UnitTakeDamage(damage) ==
    /\ enemies' = << EnemyTakeDamage(enemies[1], damage) >>
    /\ trace' = [call |-> "take_damage", arg |-> damage, before |-> enemies[1]]
    /\ UNCHANGED player
    /\ UnitUnchanged

NextUnit ==
    \/ \E exp \in UnitExps : UnitAddExperience(exp)
    \/ UnitLevelUp
    \/ \E damage \in UnitDamages : UnitTakeDamage(damage)

SpecUnit == InitUnit /\ [][NextUnit]_vars

(* A Boss alone: the two methods that read and write its phase, called as  *)
(* a match calls them.  A tick ages the Boss by the frame delta and runs   *)
(* its iteration of update_enemies (which calls                            *)
(* update_boss_and_get_bullets; the bullets are dropped); between two      *)
(* ticks the combat resolver calls take_damage once per hit.  trace keeps  *)
(* the last call and, from the entry into phase 2 on, the time since it    *)
(* (up to 6 s).  The hits are those of the player of the Boss fight: 16    *)
(* points a bullet, 24 for a critical one.                                 *)
BossDamages == {16, 24}

InitBossAlone ==
    /\ state = "Battle"
    /\ pc = "idle"
    /\ dt = 0
    /\ player = PlayerNew
    /\ enemies = << EnemyNew("Boss", 1, 0) >>
    /\ bullets = << >>
    /\ items = << >>
    /\ start_time = Sec(ElapsedCap)
    /\ last_spawn_time = 0
    /\ coins = 0
    /\ wins = 0
    /\ available_upgrades = InitRogueUpgrades
    /\ current_session_coins = 0
    /\ current_session_exp = 0
    /\ enemies_defeated_this_session = 0
    /\ total_damage_dealt = 0
    /\ game_result = << >>
    /\ rogue_selection_timer = 0
    /\ current_rogue_options = << >>
    /\ rogue_auto_selected = FALSE
    /\ rogue_auto_selected_timer = 0
    /\ cc = EmptyLocals
    /\ trace = [call |-> "new", arg |-> 0, entered |-> FALSE, since |-> 0]

(* One frame of the Boss: the clock, then its iteration of the loop of     *)
(* update_enemies.                                                         *)
BossAloneTick(d) ==
    /\ enemies[1].health > 0
    /\ LET aged == << EnemyAged(enemies[1], d) >>
       IN  \E reach \in SUBSET CanReach(aged, d) :
             /\ MustReach(aged, d) \subseteq reach
             /\ enemies' = << UpdateEnemy(aged[1], 1 \in reach, start_time, d).e >>
    /\ trace' = [call |-> "update_boss_and_get_bullets", arg |-> d,
                 entered |-> trace.entered,
                 since |-> IF trace.entered THEN Min(trace.since + d, Sec(6)) ELSE 0]
    /\ UNCHANGED player
    /\ UnitUnchanged

(* boss.take_damage(damage), on a Boss the resolver found alive. *)
BossAloneTakeDamage(damage) ==
    /\ enemies[1].health > 0
    /\ LET after == EnemyTakeDamage(enemies[1], damage)
           entry == enemies[1].special_state = 1 /\ after.special_state = 2
       IN  /\ enemies' = << after >>
           /\ trace' = [call |-> "take_damage", arg |-> damage,
                        entered |-> trace.entered \/ entry,
                        since |-> IF entry THEN 0 ELSE trace.since]
    /\ UNCHANGED player
    /\ UnitUnchanged

NextBossAlone ==
    \/ \E d \in FrameDeltas : BossAloneTick(d)
    \/ \E damage \in BossDamages : BossAloneTakeDamage(damage)

SpecBossAlone == InitBossAlone /\ [][NextBossAlone]_vars

(* A Heavy alone: its iteration of the loop of update_enemies, which reads *)
(* nothing of the other enemies, run as a match runs it.  The Heavy was    *)
(* pushed by the spawn gate of a frame at 80 s or at 90 s, and that frame  *)
(* ran its first iteration.  A frame then ages the Heavy's Instants by the *)
(* frame delta and runs the iteration; a frame of an upgrade selection     *)
(* ages the Instants only.  The delta 0 is a frame far shorter than the    *)
(* resolution of the clock, as the frames of 1/60 s are.  trace keeps the  *)
(* last call, the bullets it created, the attack variant it chose (-1 if   *)
(* no attack was due) and the time since bullets were last created (up to  *)
(* 2 s); gap is that time at the moment of the call.                       *)
HeavyDeltas == {0, 1, 2}

HeavyUntil == Sec(94)

(* What a frame of delta d leaves in trace, given the Heavy aged by d and  *)
(* the result r of its iteration.                                          *)
HeavyFrameTrace(aged, r, d, since) ==
    LET gap == Min(since + d, Sec(2))
    IN  [call |-> "update_enemies", arg |-> d, fired |-> r.bullets,
         attack |-> IF aged.last_shot_time >= Sec(1)
                    THEN (r.e.movement_timer \div Sec(1)) % 4 ELSE -1,
         gap |-> gap,
         since |-> IF r.bullets # << >> THEN 0 ELSE gap]

InitHeavyAlone ==
    /\ state = "Battle"
    /\ pc = "idle"
    /\ dt = 0
    /\ player = PlayerNew
    /\ start_time \in {Sec(80), Sec(90)}
    /\ \E pattern \in 1..4, d \in HeavyDeltas :
         LET new == << EnemyNew("Heavy", pattern, 0) >>
         IN  \E reach \in SUBSET CanReach(new, d) :
               /\ MustReach(new, d) \subseteq reach
               /\ LET r == UpdateEnemy(new[1], 1 \in reach, start_time, d)
                  IN  /\ enemies = << r.e >>
                      /\ trace = HeavyFrameTrace(new[1], r, d, Sec(2))
    /\ bullets = << >>
    /\ items = << >>
    /\ last_spawn_time = 0
    /\ coins = 0
    /\ wins = 0
    /\ available_upgrades = InitRogueUpgrades
    /\ current_session_coins = 0
    /\ current_session_exp = 0
    /\ enemies_defeated_this_session = 0
    /\ total_damage_dealt = 0
    /\ game_result = << >>
    /\ rogue_selection_timer = 0
    /\ current_rogue_options = << >>
    /\ rogue_auto_selected = FALSE
    /\ rogue_auto_selected_timer = 0
    /\ cc = EmptyLocals

HeavyUnchanged ==
    UNCHANGED << pc, player, bullets, items, last_spawn_time, coins, wins,
                 available_upgrades, current_session_coins, current_session_exp,
                 enemies_defeated_this_session, total_damage_dealt, game_result,
                 rogue_selection_timer, current_rogue_options, rogue_auto_selected,
                 rogue_auto_selected_timer, cc >>

(* A frame of the battle (update_battle): the clock, then the Heavy's      *)
(* iteration of update_enemies.                                            *)
HeavyAloneFrame(d) ==
    /\ state = "Battle"
    /\ ClockAdvance(d)
    /\ LET aged == << EnemyAged(enemies[1], d) >>
       IN  \E reach \in SUBSET CanReach(aged, d) :
             /\ MustReach(aged, d) \subseteq reach
             /\ LET r == UpdateEnemy(aged[1], 1 \in reach, Advance(start_time, d, Sec(ElapsedCap)), d)
                IN  /\ enemies' = << r.e >>
                    /\ trace' = HeavyFrameTrace(aged[1], r, d, trace.since)
    /\ UNCHANGED state
    /\ HeavyUnchanged

(* The battle tick that ends with a level-up (lines 682-685) and the       *)
(* answer of the player (select_rogue_upgrade): only the state changes for *)
(* the Heavy.                                                              *)
HeavyAlonePause ==
    /\ state' = IF state = "Battle" THEN "RogueSelection" ELSE "Battle"
    /\ UNCHANGED << dt, start_time, enemies, trace >>
    /\ HeavyUnchanged

(* A frame of the upgrade selection (update_rogue_selection): the Instants *)
(* grow older, nothing moves.                                              *)
HeavyAloneWait(d) ==
    /\ state = "RogueSelection"
    /\ ClockAdvance(d)
    /\ enemies' = << EnemyAged(enemies[1], d) >>
    /\ trace' = [trace EXCEPT !.call = "update_rogue_selection", !.arg = d,
                              !.fired = << >>, !.attack = -1,
                              !.gap = Min(trace.since + d, Sec(2)),
                              !.since = Min(trace.since + d, Sec(2))]
    /\ UNCHANGED state
    /\ HeavyUnchanged

NextHeavyAlone ==
    \/ \E d \in HeavyDeltas : start_time < HeavyUntil /\ HeavyAloneFrame(d)
    \/ HeavyAlonePause
    \/ \E d \in HeavyDeltas : start_time < HeavyUntil /\ HeavyAloneWait(d)

SpecHeavyAlone == InitHeavyAlone /\ [][NextHeavyAlone]_vars

(* The Heavy alone in a battle that is never paused and whose frames all   *)
(* take half a second; the main loop runs a frame after every frame.       *)
NextHeavySteady == HeavyAloneFrame(1)

SpecHeavySteady ==
    InitHeavyAlone /\ [][NextHeavySteady]_vars /\ WF_vars(NextHeavySteady)

----------------------------------------------------------------------------
(* Properties of the methods called alone *)

(* C18: add_experience(100) on a player just constructed leaves the player *)
(* at level 2 with experience 0 and experience_needed 200.                 *)
C18_AddExperienceLevelsUp ==
    (/\ trace.call = "add_experience"
     /\ trace.arg = 100
     /\ trace.before = PlayerNew)
    => /\ player.level = 2
       /\ player.experience = 0
       /\ player.experience_needed = 200

(* C19: take_damage(d) on an enemy that is not invincible and has no       *)
(* shield sets its health to max(health - d, 0); every other field of an   *)
(* enemy that is not a Boss stays as it was.                               *)
C19_TakeDamageFloorsAtZero ==
    (/\ trace.call = "take_damage"
     /\ ~trace.before.is_invincible
     /\ trace.before.shield_health = 0)
    => /\ enemies[1].health = Max(trace.before.health - trace.arg, 0)
       /\ trace.before.enemy_type # "Boss"
          => enemies[1] = [trace.before EXCEPT !.health = Max(@ - trace.arg, 0)]

(* A new Scout of 20 health points was hit for 10 and has 10 left; a hit   *)
(* of 40 on it would be floored.                                           *)
C19_Witness ==
    /\ trace.call = "take_damage"
    /\ trace.arg = 10
    /\ trace.before = EnemyNew("Scout", 1, 0)
    /\ enemies[1].health = 10

----------------------------------------------------------------------------
(* Properties of the spawner at the end of a match *)

(* The enemies spawn_enemies has pushed in the step: those at the end of   *)
(* the collection after the first half of the frame.                       *)
Spawned == SubSeq(enemies', Len(enemies) + 1, Len(enemies'))

(* C20: the enemy collection never holds more than one Boss; it holds no   *)
(* Boss while the battle time is below 180 s; and on a tick at 180 s or    *)
(* later spawn_enemies creates no Scout, Heavy or Carrier.                 *)
C20_OneBossAndNothingElse ==
    /\ [](/\ Cardinality(Bosses(enemies)) <= 1
          /\ state = "Battle" /\ start_time < Sec(180) => Bosses(enemies) = {})
    /\ [][ (state = "Battle" /\ pc = "idle" /\ pc' = "update_enemies"
             /\ start_time' >= Sec(180))
           => \A i \in 1..Len(Spawned) : Spawned[i].enemy_type = "Boss" ]_vars

(* The Boss was spawned in an earlier frame next to an enemy of the time   *)
(* before, and the spawner has just run again.                             *)
C20_Witness ==
    /\ state = "Battle"
    /\ pc = "update_enemies"
    /\ Cardinality(Bosses(enemies)) = 1
    /\ Len(enemies) >= 2
    /\ \A b \in Bosses(enemies) : b.spawn_time > 0

----------------------------------------------------------------------------
(* Properties of the combat resolver: hit-sets, piercing, explosions,      *)
(* collisions                                                              *)

(* C21: whatever enemies were removed, by the combat resolver or by the    *)
(* movement pass, every entry of every bullet's hit-set is a position of   *)
(* the enemy collection, and the enemy at that position is one the bullet  *)
(* has struck since its last bounce.  The enemies a bullet skips as        *)
(* already hit are those at the positions of its hit-set, so a bullet then *)
(* skips no enemy it has not struck.                                       *)
C21_HitSetsFollowRemovals ==
    \A bi \in 1..Len(bullets) :
        \A h \in bullets[bi].hit_enemies :
            /\ h <= Len(enemies)
            /\ enemies[h].id \in bullets[bi].struck

(* C22: in one tick a player bullet whose remaining piercing is a finite   *)
(* N >= 0 damages at most N + 1 enemies, however many are within 30 units  *)
(* of it.                                                                  *)
C22_PiercingBoundsOneTick ==
    [][ (pc = "check_collisions" /\ pc' = "check_collisions_rest") =>
          \A bi \in 1..Len(bullets) :
              (bullets[bi].is_player_bullet /\ bullets[bi].piercing_count # LaserPiercing)
              => Cardinality({ k \in 1..Len(trace'.hits) : trace'.hits[k].bullet = bi })
                     <= bullets[bi].piercing_count + 1 ]_vars

(* C24: only living enemies deal collision damage.  The enemies that live  *)
(* through the bullets and explosions of a tick are those left in the      *)
(* collection at its end, so every hit that costs the player health        *)
(* carries the damage of an enemy bullet or the collision damage of an     *)
(* enemy left: an enemy killed earlier in the tick costs none.             *)
C24_DeadEnemiesDealNoDamage ==
    [][ (pc = "check_collisions_rest" /\ pc' = "check_item_collisions") =>
          \A k \in 1..Len(trace'.player_hits) :
              LET h == trace'.player_hits[k]
              IN  h.after < h.before =>
                    h.damage \in { bullets[i].damage : i \in EnemyBulletPositions(bullets) }
                                 \cup { enemies'[i].collision_damage : i \in 1..Len(enemies') } ]_vars

(* C23: an explosion damages only living enemies other than the one whose  *)
(* hit triggered it: in the explosion pass of a tick every enemy damaged   *)
(* is alive, and an enemy is damaged at most once per explosion triggered  *)
(* by a hit on another enemy.                                              *)
C23_ExplosionSparesItsOrigin ==
    [][ (pc = "check_collisions_rest" /\ pc' = "check_item_collisions") =>
          /\ \A k \in 1..Len(NewlyApplied) : NewlyApplied[k].before > 0
          /\ \A j \in 1..Len(enemies) :
               Cardinality({ k \in 1..Len(NewlyApplied) : NewlyApplied[k].id = enemies[j].id })
                   <= Cardinality({ k \in 1..Len(cc.explosion_damages) :
                                      cc.explosion_damages[k].origin # j }) ]_vars

----------------------------------------------------------------------------
(* Properties of the enemies' behaviour *)

(* C25: a Boss that has entered phase 2 is invincible while less than 5 s  *)
(* have passed since the entry, whatever its age at the entry, and its     *)
(* health does not change in that time; once 5 s have passed, its next     *)
(* update clears the flag.                                                 *)
C25_InvincibleFiveSeconds ==
    /\ [](\A b \in Bosses(enemies) :
            (b.special_state = 2 /\ trace.entered) =>
                /\ trace.since < Sec(5) => b.is_invincible
                /\ (trace.since >= Sec(5) /\ trace.call = "update_boss_and_get_bullets")
                   => ~b.is_invincible)
    /\ [][ \A b \in Bosses(enemies), c \in Bosses(enemies') :
             (b.special_state = 2 /\ trace'.entered /\ trace'.since < Sec(5))
             => c.health = b.health ]_vars

(* C26: a Heavy creates bullets only once it has reached its zone, also    *)
(* when an upgrade selection paused the battle during its descent, and     *)
(* never less than 1 s after it last created bullets.                      *)
C26_HeavyFiresInZoneOncePerSecond ==
    (trace.call = "update_enemies" /\ trace.fired # << >>)
    => /\ enemies[1].has_reached_zone
       /\ trace.gap >= Sec(1)

(* The parallel double shot and the predictive lead shot of a Heavy. *)
DoubleShot(e) == Burst(2, BulletNew(e.bullet_damage, FALSE, "EnemyGeneric"))

LeadShot(e) == Burst(1, BulletNew(e.bullet_damage + 2, FALSE, "EnemyBoss"))

(* C27: while the battle time is below 90 s the bullets a Heavy creates    *)
(* are those of the parallel double shot or of the predictive lead shot,   *)
(* never the spread (variant 0) or the fan (variant 1).                    *)
C27_NoSpreadOrFanBefore90 ==
    (trace.call = "update_enemies" /\ start_time < Sec(90) /\ trace.fired # << >>)
    => /\ trace.attack \in {2, 3}
       /\ trace.fired \in {DoubleShot(enemies[1]), LeadShot(enemies[1])}

(* Before 90 s a Heavy in its zone has fired the lead shot, more than 1 s  *)
(* after it last created bullets, if it ever did.                          *)
C27_Witness ==
    /\ trace.call = "update_enemies"
    /\ start_time < Sec(90)
    /\ enemies[1].has_reached_zone
    /\ trace.attack = 3
    /\ trace.fired = LeadShot(enemies[1])
    /\ trace.gap > Sec(1)

(* C28: a Heavy that stays in its zone attacks with each of the 4 variants *)
(* (spread, fan, parallel double, predictive lead) again and again,        *)
(* whichever movement pattern it was given at its spawn.                   *)
C28_CyclesThroughAllVariants ==
    \A v \in 0..3 : []<>(trace.call = "update_enemies" /\ trace.attack = v)

----------------------------------------------------------------------------
(* The spawner alone: spawn_enemies run as a match runs it, once per frame *)
(* of the battle after the clock, from start_battle on.  Of the enemies it *)
(* reads only whether a Carrier or a Boss exists, so the rest of the frame *)
(* is kept as what it does to the collection: enemies that are destroyed   *)
(* or leave the arena are taken out of it (SpawnerRetain), the Scouts and  *)
(* Heavies of a gate before the next frame.  An upgrade selection stops    *)
(* the calls while both Instants keep running (SpawnerSelection).  trace   *)
(* keeps the last call                                                     *)
(* of spawn_enemies: whether it was a gate, the elapsed time it read, the  *)
(* types of the enemies it pushed, the time since the gate before it (gap, *)
(* up to 1 s; since is that time now), and the number of Carriers pushed   *)
(* so far in this match and in [40 s, 45 s), that call included (up to 2). *)
SpawnerKeeps == SUBSET {"Scout", "Heavy", "Carrier", "Boss"}

SpawnerPatterns == 1..4

PushedTypes(before, after) ==
    [k \in 1..(Len(after) - Len(before)) |-> after[Len(before) + k].enemy_type]

TypeCount(types, enemy_type) ==
    Cardinality({ k \in 1..Len(types) : types[k] = enemy_type })

InitSpawner ==
    /\ state = "Battle"
    /\ pc = "idle"
    /\ dt = 0
    /\ player = PlayerNew
    /\ start_time = 0
    /\ enemies = << >>
    /\ trace = [call |-> "start_battle", gate |-> FALSE, at |-> 0,
                pushed |-> << >>, gap |-> Sec(1), since |-> Sec(1),
                carriers |-> 0, in_window |-> 0]
    /\ bullets = << >>
    /\ items = << >>
    /\ last_spawn_time \in {0, Sec(1)}
    /\ coins = 0
    /\ wins = 0
    /\ available_upgrades = InitRogueUpgrades
    /\ current_session_coins = 0
    /\ current_session_exp = 0
    /\ enemies_defeated_this_session = 0
    /\ total_damage_dealt = 0
    /\ game_result = << >>
    /\ rogue_selection_timer = 0
    /\ current_rogue_options = << >>
    /\ rogue_auto_selected = FALSE
    /\ rogue_auto_selected_timer = 0
    /\ cc = EmptyLocals

SpawnerUnchanged ==
    UNCHANGED << pc, player, bullets, items, coins, wins,
                 available_upgrades, current_session_coins, current_session_exp,
                 enemies_defeated_this_session, total_damage_dealt, game_result,
                 current_rogue_options, rogue_auto_selected,
                 rogue_auto_selected_timer, cc >>

(* A frame of the battle (update_battle): the clock, then spawn_enemies. *)
SpawnerFrame(d) ==
    /\ state = "Battle"
    /\ ~HasType(enemies, "Scout")
    /\ ~HasType(enemies, "Heavy")
    /\ ClockAdvance(d)
    /\ LET elapsed == Advance(start_time, d, Sec(ElapsedCap))
           spawn_age == Advance(last_spawn_time, d, Sec(1))
           gap == Min(trace.since + d, Sec(1))
       IN  \E pattern \in SpawnerPatterns :
             LET spawned == SpawnEnemies(enemies, elapsed, spawn_age,
                                         [k \in 1..HeavyCount(elapsed) |-> pattern])
                 pushed == PushedTypes(enemies, spawned.enemies)
             IN  /\ enemies' = spawned.enemies
                 /\ last_spawn_time' = IF spawned.gate THEN 0 ELSE spawn_age
                 /\ trace' = [call |-> "spawn_enemies",
                              gate |-> spawned.gate, at |-> elapsed,
                              pushed |-> pushed,
                              gap |-> gap,
                              since |-> IF spawned.gate THEN 0 ELSE gap,
                              carriers |->
                                  Min(trace.carriers + TypeCount(pushed, "Carrier"), 2),
                              in_window |->
                                  IF elapsed >= Sec(40) /\ elapsed < Sec(45)
                                  THEN Min(trace.in_window + TypeCount(pushed, "Carrier"), 2)
                                  ELSE trace.in_window]
    /\ UNCHANGED << state, rogue_selection_timer >>
    /\ SpawnerUnchanged

(* The rest of a frame: the enemies whose type is not in keep are          *)
(* destroyed (check_collisions) or leave the arena (update_enemies).       *)
SpawnerRetain(keep) ==
    /\ state = "Battle"
    /\ enemies' = SelectSeq(enemies, LAMBDA e : e.enemy_type \in keep)
    /\ enemies' # enemies
    /\ UNCHANGED << state, dt, start_time, last_spawn_time, trace,
                    rogue_selection_timer >>
    /\ SpawnerUnchanged

(* An upgrade selection, from the battle tick that ends with a level-up    *)
(* (lines 682-685) to its completion, lasting w: its frames                *)
(* (update_rogue_selection) call no spawn_enemies while the Instants grow  *)
(* older.  The player answers at any time; after 10 s an upgrade is chosen *)
(* for them, and 2 s later the battle goes on: w is at most 12 s.          *)
SelectionLengths == {1, Sec(1), Sec(6), Sec(10) + Sec(2)}

SpawnerSelection(w) ==
    /\ state = "Battle"
    /\ start_time' = Advance(start_time, w, Sec(ElapsedCap))
    /\ last_spawn_time' = Advance(last_spawn_time, w, Sec(1))
    /\ trace' = [trace EXCEPT !.call = "update_rogue_selection", !.gate = FALSE,
                              !.at = 0, !.pushed = << >>, !.gap = Sec(1),
                              !.since = Min(trace.since + w, Sec(1))]
    /\ UNCHANGED << state, dt, enemies, rogue_selection_timer >>
    /\ SpawnerUnchanged

NextSpawner ==
    \/ \E d \in FrameDeltas : SpawnerFrame(d)
    \/ \E keep \in SpawnerKeeps : SpawnerRetain(keep)
    \/ \E w \in SelectionLengths : SpawnerSelection(w)

SpecSpawner == InitSpawner /\ [][NextSpawner]_vars

----------------------------------------------------------------------------
(* Properties of the spawner *)

(* C29: at every spawn gate with elapsed time t < 180 the spawner creates  *)
(* exactly 3 + floor(t/60) Scouts if floor(t) mod 5 = 0 and none           *)
(* otherwise, and exactly 1 + floor((t-20)/30) Heavies if floor(t) mod 10  *)
(* = 0 and t >= 20 and none otherwise; two gates are at least 1 second     *)
(* apart, and no Heavy exists before t = 20.                               *)
C29_ScoutAndHeavyWaves ==
    /\ (trace.call = "spawn_enemies" /\ trace.gate /\ trace.at < 2 * 180) =>
          /\ TypeCount(trace.pushed, "Scout") =
                IF (trace.at \div 2) % 5 = 0 THEN 3 + (trace.at \div (2 * 60)) ELSE 0
          /\ TypeCount(trace.pushed, "Heavy") =
                IF (trace.at \div 2) % 10 = 0 /\ trace.at >= 2 * 20
                THEN 1 + ((trace.at - 2 * 20) \div (2 * 30)) ELSE 0
          /\ trace.gap >= 2 * 1
    /\ (trace.call = "spawn_enemies" /\ ~trace.gate) => trace.pushed \in {<< >>, << "Boss" >>}
    /\ start_time < 2 * 20 => ~HasType(enemies, "Heavy")

(* A gate after 60 s at a multiple of 10 s: four or more Scouts and two or *)
(* more Heavies are created at once.                                       *)
C29_Witness ==
    /\ trace.call = "spawn_enemies"
    /\ trace.gate
    /\ trace.at >= 2 * 60
    /\ trace.at < 2 * 180
    /\ TypeCount(trace.pushed, "Scout") >= 4
    /\ TypeCount(trace.pushed, "Heavy") >= 2

(* C30: the spawner creates no Carrier before t = 40; the first Carrier of *)
(* a match is created during [40,45) and it is the only one created in     *)
(* that window; every later Carrier is created at a gate where floor(t)    *)
(* mod 60 = 0; no gate creates more than one Carrier.                      *)
C30_CarrierSchedule ==
    /\ (trace.call = "spawn_enemies" /\ TypeCount(trace.pushed, "Carrier") > 0) =>
          /\ trace.gate
          /\ TypeCount(trace.pushed, "Carrier") = 1
          /\ trace.at >= 2 * 40
          /\ trace.carriers = 1 => trace.at < 2 * 45
          /\ trace.carriers > 1 => (trace.at \div 2) % 60 = 0
    /\ trace.in_window <= 1

----------------------------------------------------------------------------
(* A player bullet alone, from player_shoot to its removal.  The player    *)
(* chose Ricochet at one or two level-ups, or Piercing and then Ricochet.  *)
(* A bullet of the machine gun or of the laser flies straight up from a    *)
(* player who stays 25 units inside the arena, so it only meets the upper  *)
(* edge; the outer bullets of a Shotgun volley fly at an angle and meet    *)
(* the side edges too.  A tick of the bullet is its iteration of the loop  *)
(* of update_bullets and the retain; a strike is its iteration of the loop *)
(* of check_collisions over two enemies, whose own damage is left out.     *)
(* trace keeps the last call, the ricochet_count the bullet was created    *)
(* with, the number of edges it was reflected by so far and in the last    *)
(* tick, and whether it flies at an angle.                                 *)
LoneUpgrades == { << 10 >>, << 10, 10 >>, << 9, 10 >> }

LoneEnemies == << Wounded("Heavy", 0, 0, 0), Wounded("Carrier", 0, 0, 1) >>

InitBulletAlone ==
    /\ \E weapon_type \in WeaponTypes, ids \in LoneUpgrades :
         LET r == Promoted([PlayerNew EXCEPT !.weapon = WeaponNew(weapon_type)],
                           InitRogueUpgrades, ids)
         IN  /\ player = r.player
             /\ available_upgrades = r.pool
             /\ \E crits \in CritRolls(r.player, 1),
                   angled \in IF weapon_type = "Shotgun" THEN BOOLEAN ELSE {FALSE} :
                  /\ bullets = << CreateBullet(r.player, TotalAttackPower(r.player), 1 \in crits) >>
                  /\ trace = [call |-> "player_shoot", charges |-> r.player.ricochet,
                              reflections |-> 0, bounced |-> 0, angled |-> angled]
    /\ state = "Battle"
    /\ pc = "idle"
    /\ dt = 0
    /\ enemies = LoneEnemies
    /\ items = << >>
    /\ start_time = ScenarioStart
    /\ last_spawn_time = 0
    /\ coins = 0
    /\ wins = 0
    /\ current_session_coins = 0
    /\ current_session_exp = 0
    /\ enemies_defeated_this_session = 0
    /\ total_damage_dealt = 0
    /\ game_result = << >>
    /\ rogue_selection_timer = 0
    /\ current_rogue_options = << >>
    /\ rogue_auto_selected = FALSE
    /\ rogue_auto_selected_timer = 0
    /\ cc = EmptyLocals

LoneUnchanged ==
    UNCHANGED << state, pc, dt, player, enemies, items, start_time, last_spawn_time,
                 coins, wins, available_upgrades, current_session_coins,
                 current_session_exp, enemies_defeated_this_session,
                 total_damage_dealt, game_result, rogue_selection_timer,
                 current_rogue_options, rogue_auto_selected,
                 rogue_auto_selected_timer, cc >>

(* update_bullets for the bullet: bx and by say whether it is at or beyond *)
(* an x edge, a y edge after its move, out whether it is beyond the margin *)
(* of 50 (a bullet that bounced was clamped into the arena).               *)
BulletAloneTick(bx, by, out) ==
    /\ bullets # << >>
    /\ bx => trace.angled
    /\ (bx \/ by) => bullets[1].ricochet_count > 0
    /\ out => bullets[1].ricochet_count <= 0
    /\ LET moved == << MoveBullet(bullets[1], bx, by) >>
           edges == (IF bx THEN 1 ELSE 0) + (IF by THEN 1 ELSE 0)
       IN  /\ bullets' = Retain(moved, BulletsDropped(moved, IF out THEN {1} ELSE {}))
           /\ trace' = [trace EXCEPT !.call = "update_bullets",
                                     !.reflections = trace.reflections + edges,
                                     !.bounced = edges]
    /\ LoneUnchanged

(* check_collisions for the bullet (lines 1176-1241 and the removal of the *)
(* bullets marked): near is the set of enemy positions below distance 30.  *)
BulletAloneStrike(near) ==
    /\ bullets # << >>
    /\ LET scan == ScanBullet(bullets[1], 1, enemies, { << 1, ei >> : ei \in near })
       IN  /\ scan.enemy_bullet_hits # << >>
           /\ bullets' = IF scan.should_remove THEN << >>
                         ELSE << BulletAfterScan(bullets[1], scan) >>
    /\ trace' = [trace EXCEPT !.call = "check_collisions", !.bounced = 0]
    /\ LoneUnchanged

NextBulletAlone ==
    \/ \E bx \in BOOLEAN, by \in BOOLEAN, out \in BOOLEAN : BulletAloneTick(bx, by, out)
    \/ \E near \in SUBSET (1..Len(LoneEnemies)) : BulletAloneStrike(near)

SpecBulletAlone == InitBulletAlone /\ [][NextBulletAlone]_vars

----------------------------------------------------------------------------
(* Properties of the bullets' ricochet *)

(* C31: for a bullet created with ricochet budget R > 0, a tick of         *)
(* update_bullets in which it is reflected empties its hit-set and lowers  *)
(* the budget by one per edge; the bullet is reflected at most R times in  *)
(* its life and its budget never drops below 0, also in a corner.          *)
C31_RicochetBudget ==
    \A bi \in 1..Len(bullets) :
        (trace.charges > 0) =>
            /\ bullets[bi].ricochet_count >= 0
            /\ trace.reflections <= trace.charges
            /\ bullets[bi].ricochet_count = trace.charges - trace.reflections
            /\ (trace.call = "update_bullets" /\ trace.bounced > 0)
                   => bullets[bi].hit_enemies = {}

----------------------------------------------------------------------------
(* Properties of the upgrade selection *)

(* C32: a step that completes an upgrade selection (the level changes; by  *)
(* hand, or 2 s after the automatic choice) takes the old threshold from   *)
(* experience, raises level by exactly 1 and sets experience_needed to 100 *)
(* times the new level; if experience is still at or over the new          *)
(* threshold the state is RogueSelection with a new offer, the 10 s timer  *)
(* at 0 and no automatic choice made, otherwise it is Battle.  A choice by *)
(* hand (an upgrade is recorded while no automatic choice is pending)      *)
(* completes the selection in the same step.                               *)
C32_CompletionLevelsUp ==
    [][ /\ (state = "RogueSelection" /\ player'.level # player.level) =>
              /\ player'.level = player.level + 1
              /\ player'.experience = player.experience - player.experience_needed
              /\ player'.experience_needed = 100 * player'.level
              /\ IF player'.experience >= player'.experience_needed
                 THEN /\ state' = "RogueSelection"
                      /\ current_rogue_options' # << >>
                      /\ rogue_selection_timer' = 0
                      /\ ~rogue_auto_selected'
                 ELSE state' = "Battle"
        /\ (state = "RogueSelection"
              /\ Len(player'.rogue_upgrades) > Len(player.rogue_upgrades)
              /\ ~rogue_auto_selected') => player'.level = player.level + 1
      ]_vars

(* A completion left experience at or over the new threshold: the next     *)
(* offer is open.                                                          *)
C32_Witness ==
    /\ state = "RogueSelection"
    /\ player.level \in {2, 6}
    /\ player.experience >= player.experience_needed
    /\ Len(player.rogue_upgrades) = player.level - 1
    /\ rogue_selection_timer = 0
    /\ ~rogue_auto_selected

(* C33: whenever the state is Battle between two ticks, experience is at   *)
(* least 0 and below experience_needed, and experience_needed is 100 times *)
(* the level.                                                              *)
C33_ExperienceBelowThreshold ==
    (state = "Battle" /\ pc = "idle") =>
        /\ 0 <= player.experience
        /\ player.experience < player.experience_needed
        /\ player.experience_needed = 100 * player.level

(* The battle goes on after the first level-up of a match. *)
C33_Witness ==
    /\ state = "Battle"
    /\ pc = "idle"
    /\ player.level = 2
    /\ Len(player.rogue_upgrades) = 1

(* C34: from the weapon selection until the match ends the equipped weapon *)
(* keeps the attributes Weapon::new gave its type (base attack power,      *)
(* attack speed, bullet speed, bullet count); no step of a match, the      *)
(* application of an upgrade included, changes the weapon.                 *)
C34_WeaponKeepsItsShape ==
    /\ [](state \in {"Battle", "RogueSelection"}
            => player.weapon = WeaponNew(player.weapon.weapon_type))
    /\ [][(state \in {"Battle", "RogueSelection"}
             /\ state' \in {"Battle", "RogueSelection"})
            => player'.weapon = player.weapon]_vars

----------------------------------------------------------------------------
(* Properties of the screens *)

(* C35: whenever the state is MainMenu, WeaponSelect or GameOver after a   *)
(* battle was in progress, the bullet, enemy and item collections are all  *)
(* empty.                                                                  *)
C35_LeavingBattleClearsEntities ==
    state \in {"MainMenu", "WeaponSelect", "GameOver"} =>
        /\ bullets = << >>
        /\ enemies = << >>
        /\ items = << >>

(* Screens: the level-up scenario with the keys that leave the battle and *)
(* move between the idle screens.  The clock of an idle screen moves for   *)
(* 2 s after the scenario's first instant.                                 *)
ScreensRun ==
    \/ start_time < ScenarioStart + Sec(2)
    \/ start_time >= Sec(104) /\ start_time < Sec(106)

NextScreens ==
    \/ NextLevelUp
    \/ \E d \in FrameDeltas : ScreensRun /\ UpdateIdle(d)
    \/ BattleEscape
    \/ MainMenuStart
    \/ MainMenuLogin
    \/ LoginSuccess
    \/ WeaponSelectEscape
    \/ GameOverEscape

SpecScreens == InitLevelUp /\ [][NextScreens]_vars

(* An enemy and the player without the ages of their Instants, which are   *)
(* no fields that update writes.                                           *)
Timeless(e) == [e EXCEPT !.last_shot_time = 0, !.spawn_time = 0]

PlayerTimeless(p) == [p EXCEPT !.last_shot_time = 0, !.last_damage_time = 0]

EnemiesUntouched ==
    /\ Len(enemies') = Len(enemies)
    /\ \A i \in 1..Len(enemies) : Timeless(enemies'[i]) = Timeless(enemies[i])

(* A step of update on an idle screen: the clock of the frame moves and    *)
(* the screen stays.                                                       *)
IdleUpdate ==
    /\ state \in {"MainMenu", "WeaponSelect", "Login", "GameOver"}
    /\ state' = state

(* A step of update in RogueSelection: one of the two timers of the        *)
(* selection is advanced (a key leaves them alone or resets them).         *)
RogueUpdate ==
    /\ state = "RogueSelection"
    /\ rogue_auto_selected \/ rogue_selection_timer' > rogue_selection_timer

IdleScreensUntouched ==
    IdleUpdate =>
        /\ EnemiesUntouched
        /\ PlayerTimeless(player') = PlayerTimeless(player)
        /\ UNCHANGED << pc, bullets, items, coins, wins, available_upgrades,
                        current_session_coins, current_session_exp,
                        enemies_defeated_this_session, total_damage_dealt, game_result,
                        rogue_selection_timer, current_rogue_options,
                        rogue_auto_selected, rogue_auto_selected_timer >>

(* C36, as stated: update runs the battle tick only in Battle; on the idle *)
(* screens it changes nothing, and in RogueSelection it leaves every       *)
(* enemy, bullet and item and the health of the player unchanged.          *)
C36_UpdateOutsideBattle ==
    [][ /\ IdleScreensUntouched
        /\ RogueUpdate =>
              /\ EnemiesUntouched
              /\ UNCHANGED << pc, bullets, items >>
              /\ player'.health = player.health
      ]_vars

(* C36, amended: in RogueSelection update changes the health of the player *)
(* only by the 3 points of the upgrade with id 0, when the automatic       *)
(* choice applies it.                                                      *)
C36_UpdateOutsideBattleAmended ==
    [][ /\ IdleScreensUntouched
        /\ RogueUpdate =>
              /\ EnemiesUntouched
              /\ UNCHANGED << pc, bullets, items >>
              /\ \/ player'.health = player.health
                 \/ /\ Len(player'.rogue_upgrades) = Len(player.rogue_upgrades) + 1
                    /\ player'.rogue_upgrades[Len(player'.rogue_upgrades)] = 0
                    /\ rogue_auto_selected'
                    /\ player'.health = player.health + 3
                    /\ player'.max_health = player.max_health + 3
      ]_vars

(* The automatic choice has applied an upgrade during update, with an      *)
(* enemy in the arena and a player who was hurt.                           *)
C36_Witness ==
    /\ state = "RogueSelection"
    /\ rogue_auto_selected
    /\ rogue_selection_timer >= Sec(10)
    /\ enemies # << >>
    /\ player.health < player.max_health

(* C37: whenever the state is Battle, the number of upgrades applied to    *)
(* the player in this match is the level minus 1.                          *)
C37_OneUpgradePerLevel ==
    state = "Battle" => Len(player.rogue_upgrades) = player.level - 1

(* The battle goes on after a selection that was made automatically and    *)
(* completed 2 s later.                                                    *)
C37_Witness ==
    /\ state = "Battle"
    /\ rogue_auto_selected
    /\ rogue_auto_selected_timer >= Sec(2)
    /\ player.level >= 2

----------------------------------------------------------------------------
(* Properties of the end of a match *)

(* C38: a battle tick in which a hit brought the health of the player to 0 *)
(* ends in GameOver with a result that is no victory, also when the Boss   *)
(* died or the experience threshold was reached in that tick; and a tick   *)
(* that ends the match (the player has no health left, or the clock is at  *)
(* 180 s and no Boss is alive) ends in GameOver, never in RogueSelection.  *)
C38_DeathEndsTheMatch ==
    [][ (pc = "check_game_over" /\ state = "Battle") =>
          /\ (\E k \in 1..Len(trace.player_hits) :
                 /\ trace.player_hits[k].before > 0
                 /\ trace.player_hits[k].after <= 0)
             => /\ state' = "GameOver"
                /\ game_result' # << >>
                /\ ~game_result'[1].victory
          /\ (\/ player.health <= 0
              \/ /\ start_time >= 2 * 180
                 /\ \A i \in 1..Len(enemies) :
                      ~(enemies[i].enemy_type = "Boss" /\ enemies[i].health > 0))
             => state' = "GameOver"
      ]_vars

----------------------------------------------------------------------------
(* The level-up scenario with ticks that keep arriving: the main loop      *)
(* calls update once per frame, so update_rogue_selection is not postponed *)
(* forever while the state is RogueSelection.                              *)
SpecLevelUpFair ==
    /\ InitLevelUp
    /\ [][NextLevelUp]_vars
    /\ WF_vars(\E d \in FrameDeltas, pick \in 0..2 : UpdateRogueSelection(d, pick))

(* C39: RogueSelection is never permanent: from any RogueSelection state,  *)
(* with ticks that keep arriving, with or without selections by hand, the  *)
(* state eventually becomes Battle.                                        *)
C39_SelectionEnds == (state = "RogueSelection") ~> (state = "Battle")

(* The battle goes on after a chain of two level-ups, from level 5. *)
C39_Witness ==
    /\ state = "Battle"
    /\ player.level = 7
    /\ Len(player.rogue_upgrades) = 6

----------------------------------------------------------------------------
(* The player alone: take_damage called on a player who chose the upgrade  *)
(* with id 8 (damage reduction + 3) at none to three level-ups, with the   *)
(* damage of a bullet of a Heavy (3), of a collision with a Scout (5) or   *)
(* of a collision with a Carrier (10), while the clock of the frames runs. *)
(* trace keeps the last call, its argument and the player before the call. *)
LoneDamages == {3, 5, 10}

InitPlayerAlone ==
    /\ \E n \in 0..3 :
         LET r == Promoted(PlayerNew, InitRogueUpgrades, [k \in 1..n |-> 8])
         IN  /\ player = [r.player EXCEPT !.last_damage_time = Sec(1)]
             /\ available_upgrades = r.pool
    /\ trace = [call |-> "new", arg |-> 0, before |-> << >>]
    /\ state = "Battle"
    /\ pc = "idle"
    /\ dt = 0
    /\ enemies = << >>
    /\ bullets = << >>
    /\ items = << >>
    /\ start_time = ScenarioStart
    /\ last_spawn_time = 0
    /\ coins = 0
    /\ wins = 0
    /\ current_session_coins = 0
    /\ current_session_exp = 0
    /\ enemies_defeated_this_session = 0
    /\ total_damage_dealt = 0
    /\ game_result = << >>
    /\ rogue_selection_timer = 0
    /\ current_rogue_options = << >>
    /\ rogue_auto_selected = FALSE
    /\ rogue_auto_selected_timer = 0
    /\ cc = EmptyLocals

PlayerAloneUnchanged ==
    UNCHANGED << state, pc, enemies, bullets, items, start_time, last_spawn_time,
                 coins, wins, available_upgrades, current_session_coins,
                 current_session_exp, enemies_defeated_this_session,
                 total_damage_dealt, game_result, rogue_selection_timer,
                 current_rogue_options, rogue_auto_selected,
                 rogue_auto_selected_timer, cc >>

(* A frame passes: the Instants of the player grow older. *)
PlayerAloneFrame(d) ==
    /\ player' = PlayerAged(player, d)
    /\ dt' = d
    /\ trace' = [call |-> "update", arg |-> d, before |-> player]
    /\ PlayerAloneUnchanged

(* player.take_damage(damage) *)
PlayerAloneTakeDamage(damage) ==
    /\ player' = PlayerTakeDamage(player, damage)
    /\ trace' = [call |-> "take_damage", arg |-> damage, before |-> player]
    /\ UNCHANGED dt
    /\ PlayerAloneUnchanged

NextPlayerAlone ==
    \/ \E d \in FrameDeltas : PlayerAloneFrame(d)
    \/ \E damage \in LoneDamages : PlayerAloneTakeDamage(damage)

SpecPlayerAlone == InitPlayerAlone /\ [][NextPlayerAlone]_vars

(* C40: a hit on the player that the invincibility window does not block   *)
(* lowers health by max(1, damage - damage_reduction), floored at 0; on a  *)
(* player with health > 0 it removes at least 1 point, whatever the        *)
(* damage reduction, and it restarts the window of 1.0 s.  A blocked hit   *)
(* changes nothing.                                                        *)
C40_UnblockedHitCostsHealth ==
    trace.call = "take_damage" =>
        LET b == trace.before
            reduced == trace.arg - b.damage_reduction
            actual == IF reduced > 1 THEN reduced ELSE 1
        IN  IF b.last_damage_time < b.invincibility_duration
            THEN player = b
            ELSE /\ player.health = IF b.health - actual > 0 THEN b.health - actual ELSE 0
                 /\ b.health > 0 => player.health <= b.health - 1
                 /\ player.last_damage_time = 0
                 /\ player.invincibility_duration = 2 * 1

(* An unblocked hit whose damage is not above the damage reduction took    *)
(* exactly 1 point.                                                        *)
C40_Witness ==
    /\ trace.call = "take_damage"
    /\ trace.before.damage_reduction >= trace.arg
    /\ trace.before.last_damage_time >= trace.before.invincibility_duration
    /\ trace.before.health > 0
    /\ player.health = trace.before.health - 1
====
